---------------------------- MODULE Spec2Model ----------------------------
(***************************************************************************)
(* A model of the CQL v3 client of src/src/lib.rs: the byte-level frame    *)
(* and value codec, and the Client that wraps it around one transport.     *)
(*                                                                         *)
(* Representation.                                                         *)
(*   - a byte is a number in 0..255, a byte string (Vec<u8>, &[u8], and a  *)
(*     Rust String, which is its UTF-8 bytes) is a sequence of bytes;      *)
(*   - an enum value is a pair <<tag, payload>>;                           *)
(*   - a usize that the code obtains by `x as usize` from an i32 x is kept *)
(*     as x: a negative x stands for 2^64 + x, which no `match` arm        *)
(*     equals and which no allocation can satisfy;                         *)
(*   - a Result is a record: st = "ok" with the value v, or st = one of    *)
(*     the five Error kinds, or st = "panic" when the code aborts          *)
(*     (unreachable!, unimplemented!, capacity overflow, slice index).     *)
(*     A reader result also carries p, the reader's position afterwards.   *)
(*   - integers are TLC's 32-bit integers, so the model's inputs keep the  *)
(*     magnitude of every i64/u32/u64 below 2^30.                          *)
(***************************************************************************)
EXTENDS Integers, Sequences, FiniteSets, TLC

VARIABLES
    client,     \* "none" before Client::new, "ready" while a Client exists, "failed" when
                \* new returned Err, "aborted" when a call panicked
    socket,     \* the TcpStream: "unopened", "open", or "released" (dropped)
    inb,        \* bytes the server has sent that no read has consumed yet
    eof,        \* TRUE once the server has closed its side of the stream
    iolog,      \* the transport operations of the calls so far, in order
    ncalls,     \* number of options/query/prepare/execute calls made
    call,       \* the last call: its name and arguments
    req,        \* what the last call's to_vec produced (st, out)
    sent,       \* the bytes the transport accepted from the last call
    rd,         \* the last call's read_cql_response: what it had available and its result
    res,        \* what the last call returned
    srv,        \* the frames the server answered the last call with
    held,       \* the caller's prepared-statement id (last one prepare returned)
    cop,        \* codec development: the operation applied
    cin,        \* codec development: its input
    cout        \* codec development: its result

vars == <<client, socket, inb, eof, iolog, ncalls, call, req, sent, rd, res, srv, held, cop, cin, cout>>

-----------------------------------------------------------------------------
(* Bytes and big-endian integers (byteorder::BigEndian).                   *)

Pow256(k) == IF k = 0 THEN 1 ELSE IF k = 1 THEN 256 ELSE IF k = 2 THEN 65536 ELSE 16777216

\* n as w big-endian bytes, 0 <= n < 2^30: write_u8 / write_u16 / write_u32 / write_u64
BEu(n, w) == [i \in 1..w |-> IF w - i > 3 THEN 0 ELSE (n \div Pow256(w - i)) % 256]

\* n as w big-endian two's-complement bytes: write_i16 / write_i32 / write_i64
BEs(n, w) == IF n >= 0 THEN BEu(n, w) ELSE [i \in 1..w |-> 255 - BEu(-(n + 1), w)[i]]

\* the unsigned value of big-endian bytes: read_u8 / read_u16 / read_u32 / read_u64.
\* A value of 2^30 or more is outside the model's integers and reads as Huge.
Huge == 2^30
UBE(bs) ==
    LET n == Len(bs)
        byte(k) == IF n - k >= 1 THEN bs[n - k] ELSE 0
    IN  IF (\E i \in 1..(n - 4) : bs[i] # 0) \/ byte(3) >= 64 THEN Huge
        ELSE byte(0) + 256 * byte(1) + 65536 * byte(2) + 16777216 * byte(3)

\* the two's-complement value of big-endian bytes: read_i16 / read_i32 / read_i64
SBE(bs) == IF bs[1] >= 128 THEN -UBE([i \in 1..Len(bs) |-> 255 - bs[i]]) - 1 ELSE UBE(bs)

Zeros(n) == [i \in 1..n |-> 0]
Ones(n) == [i \in 1..n |-> 255]

-----------------------------------------------------------------------------
(* Results.                                                                *)

Ok(v, p) == [st |-> "ok", v |-> v, p |-> p]
Err(e, p) == [st |-> e, v |-> <<>>, p |-> p]
Panic(p) == [st |-> "panic", v |-> <<>>, p |-> p]

ErrorKinds == {"Io", "UnexpectedEOF", "Utf8", "Protocol", "Unimplemented"}

\* the `?` operator: r's error or abort is returned at once, else the code goes on with r
Try(r, K(_)) == IF r.st # "ok" THEN r ELSE K(r)

Tag(x) == x[1]
Val(x) == x[2]

-----------------------------------------------------------------------------
(* String::from_utf8: the bytes themselves when they are well-formed       *)
(* UTF-8, else FromUtf8Error.                                              *)

IsCont(b) == b >= 128 /\ b <= 191

RECURSIVE IsUtf8From(_, _)
IsUtf8From(bs, i) ==
    IF i > Len(bs) THEN TRUE
    ELSE LET b == bs[i]
             has(k) == i + k <= Len(bs)
         IN  IF b < 128 THEN IsUtf8From(bs, i + 1)
             ELSE IF b >= 194 /\ b <= 223
                  THEN has(1) /\ IsCont(bs[i + 1]) /\ IsUtf8From(bs, i + 2)
             ELSE IF b >= 224 /\ b <= 239
                  THEN /\ has(2)
                       /\ IsCont(bs[i + 1]) /\ IsCont(bs[i + 2])
                       /\ (b = 224 => bs[i + 1] >= 160)
                       /\ (b = 237 => bs[i + 1] <= 159)
                       /\ IsUtf8From(bs, i + 3)
             ELSE IF b >= 240 /\ b <= 244
                  THEN /\ has(3)
                       /\ IsCont(bs[i + 1]) /\ IsCont(bs[i + 2]) /\ IsCont(bs[i + 3])
                       /\ (b = 240 => bs[i + 1] >= 144)
                       /\ (b = 244 => bs[i + 1] <= 143)
                       /\ IsUtf8From(bs, i + 4)
             ELSE FALSE

from_utf8(bs) == IsUtf8From(bs, 1)

-----------------------------------------------------------------------------
(* Value (enum Value) and its encoder (impl CqlSerializable for Value).    *)
(* A writer result is [st, out]: out holds the bytes written to the buffer *)
(* so far, also when st is an error.                                       *)

WOk(bs) == [st |-> "ok", out |-> bs]
WErr(e, bs) == [st |-> e, out |-> bs]

\* the buffer after the bytes bs and then the writes of r
After(bs, r) == [st |-> r.st, out |-> bs \o r.out]

\* len_ aborts for some variants (unimplemented!()): the abort is the length -1
Aborted == 0 - 1
AddLen(a, b) == IF a < 0 \/ b < 0 THEN Aborted ELSE a + b

RECURSIVE Value_len_(_)
RECURSIVE SumLen(_)
RECURSIVE SumPairLen(_)
RECURSIVE SumRowLen(_)

\* .iter().map(|item| item.len_()).sum::<usize>()
SumLen(items) ==
    IF Len(items) = 0 THEN 0 ELSE AddLen(Value_len_(Head(items)), SumLen(Tail(items)))

\* .iter().map(|tup| tup.0.len_() + tup.1.len_()).sum::<usize>()
SumPairLen(pairs) ==
    IF Len(pairs) = 0 THEN 0
    ELSE AddLen(AddLen(Value_len_(Head(pairs)[1]), Value_len_(Head(pairs)[2])),
                SumPairLen(Tail(pairs)))

\* .iter().map(|t| t.iter().map(|c| c.len_()).sum()).sum::<usize>()
SumRowLen(rows) ==
    IF Len(rows) = 0 THEN 0 ELSE AddLen(SumLen(Head(rows)), SumRowLen(Tail(rows)))

Value_body_len(v) ==
    LET t == Tag(v) IN
    IF t = "CqlNull" THEN 0
    ELSE IF t = "CqlCustom" THEN Len(Val(v)[2])
    ELSE IF t \in {"CqlAscii", "CqlBlob", "CqlText", "CqlVarChar"} THEN Len(Val(v))
    ELSE IF t \in {"CqlBigint", "CqlCounter", "CqlDouble", "CqlTimestamp", "CqlVarInt"} THEN 8
    ELSE IF t = "CqlBoolean" THEN 1
    ELSE IF t \in {"CqlFloat", "CqlInt"} THEN 4
    ELSE IF t \in {"CqlUUID", "CqlTimeUUID"} THEN 16
    ELSE IF t = "CqlInet" THEN (IF Tag(Val(v)) = "V4" THEN 4 ELSE 16)
    ELSE IF t \in {"CqlList", "CqlSet"} THEN AddLen(4, SumLen(Val(v)))
    ELSE IF t = "CqlMap" THEN AddLen(4, SumPairLen(Val(v)))
    ELSE IF t = "CqlTuple" THEN AddLen(4, SumRowLen(Val(v)))
    ELSE Aborted  \* CqlDecimal, CqlUDT, CqlUnknown: unimplemented!()

\* a len_ that leaves out the four bytes of the length prefix
Value_len_without_prefix(v) == Value_body_len(v)

Value_len_(v) == AddLen(4, Value_body_len(v))

RECURSIVE Value_serialize(_)
RECURSIVE SerializeAll(_)

\* for item in v { item.serialize(buf)?; }
SerializeAll(items) ==
    IF Len(items) = 0 THEN WOk(<<>>)
    ELSE Try(Value_serialize(Head(items)), LAMBDA h : After(h.out, SerializeAll(Tail(items))))

\* the (k, v) pairs of a map and the rows of a tuple, in the order they are written
RECURSIVE Flatten(_)
Flatten(rows) == IF Len(rows) = 0 THEN <<>> ELSE Head(rows) \o Flatten(Tail(rows))

Value_serialize_body(v) ==
    LET t == Tag(v) IN
    IF t = "CqlCustom" THEN WOk(Val(v)[2])
    ELSE IF t \in {"CqlAscii", "CqlBlob", "CqlText", "CqlVarChar", "CqlUUID", "CqlTimeUUID"}
         THEN WOk(Val(v))
    ELSE IF t \in {"CqlBigint", "CqlTimestamp", "CqlVarInt"} THEN WOk(BEs(Val(v), 8))
    ELSE IF t = "CqlBoolean" THEN WOk(<<IF Val(v) THEN 1 ELSE 0>>)
    ELSE IF t = "CqlDouble" THEN WOk(BEu(Val(v), 8))
    ELSE IF t = "CqlFloat" THEN WOk(BEu(Val(v), 4))
    ELSE IF t = "CqlInt" THEN WOk(BEs(Val(v), 4))
    ELSE IF t = "CqlInet" THEN WOk(Val(Val(v)))
    ELSE IF t \in {"CqlList", "CqlSet"}
         THEN After(BEu(Len(Val(v)), 4), SerializeAll(Val(v)))
    ELSE IF t \in {"CqlMap", "CqlTuple"}
         THEN After(BEu(Len(Val(v)), 4), SerializeAll(Flatten(Val(v))))
    ELSE WErr("Unimplemented", <<>>)  \* CqlCounter, CqlDecimal, CqlUDT, CqlUnknown

\* buf.write_i32((self.len_() - 4) as i32)?; and then the variant's own bytes
Prefixed(l, v) ==
    IF l < 0 THEN WErr("panic", <<>>) ELSE After(BEu(l - 4, 4), Value_serialize_body(v))

Value_serialize(v) ==
    IF Tag(v) = "CqlNull" THEN WOk(BEs(0 - 1, 4))
    ELSE Prefixed(Value_len_(v), v)

-----------------------------------------------------------------------------
(* Enumerations: Opcode, Consistency, ColumnType.                          *)

\* fn opcode(val: u8) -> Opcode
opcode(val) ==
    CASE val = 1 -> "Startup" [] val = 4 -> "Cred" [] val = 5 -> "Opts"
      [] val = 7 -> "Query" [] val = 9 -> "Prepare" [] val = 10 -> "Execute"
      [] val = 11 -> "Register"
      [] val = 0 -> "Error" [] val = 2 -> "Ready" [] val = 3 -> "Auth"
      [] val = 6 -> "Supported" [] val = 8 -> "Result" [] val = 12 -> "Event"
      [] OTHER -> "Error"

\* `opcode as u8`: the discriminants of enum Opcode
Opcode_as_u8(op) ==
    CASE op = "Startup" -> 1 [] op = "Cred" -> 4 [] op = "Opts" -> 5
      [] op = "Query" -> 7 [] op = "Prepare" -> 9 [] op = "Execute" -> 10
      [] op = "Register" -> 11
      [] op = "Error" -> 0 [] op = "Ready" -> 2 [] op = "Auth" -> 3
      [] op = "Supported" -> 6 [] op = "Result" -> 8 [] op = "Event" -> 12

\* `con as u16`: the discriminants of enum Consistency
Consistency_as_u16(con) ==
    CASE con = "Any" -> 0 [] con = "One" -> 1 [] con = "Two" -> 2 [] con = "Three" -> 3
      [] con = "Quorum" -> 4 [] con = "All" -> 5 [] con = "LocalQuorum" -> 6
      [] con = "EachQuorum" -> 7 [] con = "Unknown" -> 8

\* fn column_type(val: u16) -> ColumnType
column_type(val) ==
    CASE val = 0 -> "Custom" [] val = 1 -> "Ascii" [] val = 2 -> "Bigint"
      [] val = 3 -> "Blob" [] val = 4 -> "Boolean" [] val = 5 -> "Counter"
      [] val = 6 -> "Decimal" [] val = 7 -> "Double" [] val = 8 -> "Float"
      [] val = 9 -> "Int" [] val = 10 -> "Text" [] val = 11 -> "Timestamp"
      [] val = 12 -> "UUID" [] val = 13 -> "VarChar" [] val = 14 -> "VarInt"
      [] val = 15 -> "TimeUUID" [] val = 16 -> "Inet"
      [] val = 32 -> "List" [] val = 33 -> "Map" [] val = 34 -> "Set"
      [] val = 48 -> "UDT" [] val = 49 -> "Tuple"
      [] OTHER -> "Unknown"

-----------------------------------------------------------------------------
(* trait CqlReader: a reader is the byte string b it will supply before    *)
(* its end and the number p of bytes consumed so far.                      *)

\* std::io::Read::read_exact, as byteorder's read_u8 .. read_u64 use it: a
\* premature end is io::ErrorKind::UnexpectedEof, which `?` turns into Error::Io
read_exact(b, p, n) ==
    IF p + n <= Len(b) THEN Ok(SubSeq(b, p + 1, p + n), p + n) ELSE Err("Io", Len(b))

\* read_full: loops over read() until buf is full; a read of 0 bytes is UnexpectedEOF
read_full(b, p, n) ==
    IF p + n <= Len(b) THEN Ok(SubSeq(b, p + 1, p + n), p + n)
    ELSE Err("UnexpectedEOF", Len(b))

\* read_bytes: vec![0; len] aborts (capacity overflow) for a len of 2^64 + x
read_bytes(b, p, len) == IF len < 0 THEN Panic(p) ELSE read_full(b, p, len)

\* the value the bytes of r stand for
Unsigned(r) == Ok(UBE(r.v), r.p)
Signed(r) == Ok(SBE(r.v), r.p)

read_u8(b, p) == Try(read_exact(b, p, 1), Unsigned)

read_short(b, p) == Try(read_exact(b, p, 2), Unsigned)

read_int(b, p) == Try(read_exact(b, p, 4), Signed)

read_u32(b, p) == Try(read_exact(b, p, 4), Unsigned)

read_i64(b, p) == Try(read_exact(b, p, 8), Signed)

read_u64(b, p) == Try(read_exact(b, p, 8), Unsigned)

\* String::from_utf8(bytes).map_err(|_| Error::Utf8)
Utf8Checked(r) == IF from_utf8(r.v) THEN r ELSE Err("Utf8", r.p)

read_cql_str_len(b, p, len) == Try(read_bytes(b, p, len), Utf8Checked)

read_cql_str(b, p) ==
    Try(read_short(b, p), LAMBDA l : Try(read_bytes(b, l.p, l.v), Utf8Checked))

\* for _ in 0..len { v.push(self.read_cql_str()?); }
RECURSIVE StrListLoop(_, _, _, _)
StrListLoop(b, p, n, acc) ==
    IF n = 0 THEN Ok(acc, p)
    ELSE Try(read_cql_str(b, p), LAMBDA r : StrListLoop(b, r.p, n - 1, Append(acc, r.v)))

read_cql_string_list(b, p) ==
    Try(read_short(b, p), LAMBDA l : StrListLoop(b, l.p, l.v, <<>>))

RECURSIVE MultiMapLoop(_, _, _, _)
MultiMapLoop(b, p, n, acc) ==
    IF n = 0 THEN Ok(acc, p)
    ELSE Try(read_cql_str(b, p), LAMBDA k :
         Try(read_cql_string_list(b, k.p), LAMBDA vs :
         MultiMapLoop(b, vs.p, n - 1, Append(acc, <<k.v, vs.v>>))))

read_cql_string_multimap(b, p) ==
    Try(read_short(b, p), LAMBDA l : MultiMapLoop(b, l.p, l.v, <<>>))

RECURSIVE read_cql_col_type(_, _)
RECURSIVE ColTypeLoop(_, _, _, _)

\* for _ in 0..n { ty_list.push(self.read_cql_col_type()?); }
ColTypeLoop(b, p, n, acc) ==
    IF n = 0 THEN Ok(acc, p)
    ELSE Try(read_cql_col_type(b, p), LAMBDA r : ColTypeLoop(b, r.p, n - 1, Append(acc, r.v)))

\* the arms of `match type_key`, the reader being at p
col_type_of(b, p, type_key) ==
    IF type_key = "Custom"
    THEN Try(read_cql_str(b, p), LAMBDA name : Ok(<<"Custom", name.v>>, name.p))
    ELSE IF type_key \in {"List", "Set"}
    THEN Try(read_cql_col_type(b, p), LAMBDA ty : Ok(<<type_key, ty.v>>, ty.p))
    ELSE IF type_key = "Map"
    THEN Try(read_cql_col_type(b, p), LAMBDA key_ty :
         Try(read_cql_col_type(b, key_ty.p), LAMBDA val_ty :
         Ok(<<"Map", <<key_ty.v, val_ty.v>>>>, val_ty.p)))
    ELSE IF type_key = "Tuple"
    THEN Try(read_short(b, p), LAMBDA n :
         Try(ColTypeLoop(b, n.p, n.v, <<>>), LAMBDA l : Ok(<<"Tuple", l.v>>, l.p)))
    ELSE Ok(<<"Single", type_key>>, p)

read_cql_col_type(b, p) ==
    Try(read_short(b, p), LAMBDA k : col_type_of(b, k.p, column_type(k.v)))

None == <<"None", <<>>>>
Some(x) == <<"Some", x>>

GlobalTablesSpec == 1

\* (keyspace, table) read as two strings
read_spec_names(b, p) ==
    Try(read_cql_str(b, p), LAMBDA ks :
    Try(read_cql_str(b, ks.p), LAMBDA tb : Ok(<<Some(ks.v), Some(tb.v)>>, tb.p)))

read_cql_col_metadata(b, p, flags) ==
    Try(IF flags = GlobalTablesSpec THEN Ok(<<None, None>>, p) ELSE read_spec_names(b, p),
        LAMBDA kt :
    Try(read_cql_str(b, kt.p), LAMBDA col_name :
    Try(read_cql_col_type(b, col_name.p), LAMBDA col_type :
    Ok([keyspace |-> kt.v[1], table |-> kt.v[2],
        col_name |-> col_name.v, col_type |-> col_type.v], col_type.p))))

\* for _ in 0..column_count { row_metadata.push(self.read_cql_col_metadata(flags)?); }
RECURSIVE ColMetaLoop(_, _, _, _, _)
ColMetaLoop(b, p, flags, n, acc) ==
    IF n = 0 THEN Ok(acc, p)
    ELSE Try(read_cql_col_metadata(b, p, flags),
             LAMBDA r : ColMetaLoop(b, r.p, flags, n - 1, Append(acc, r.v)))

read_cql_metadata(b, p) ==
    Try(read_u32(b, p), LAMBDA flags :
    Try(read_u32(b, flags.p), LAMBDA column_count :
    Try(IF flags.v = GlobalTablesSpec THEN read_spec_names(b, column_count.p)
        ELSE Ok(<<None, None>>, column_count.p), LAMBDA kt :
    Try(ColMetaLoop(b, kt.p, flags.v, column_count.v, <<>>), LAMBDA rm :
    Ok([flags |-> flags.v, column_count |-> column_count.v,
        keyspace |-> kt.v[1], table |-> kt.v[2], row_metadata |-> rm.v], rm.p)))))

-----------------------------------------------------------------------------
(* Value decoding.                                                         *)

\* a parse_varint that fills the buffer with zero bytes whatever the sign is
parse_varint_zero_filled(v) ==
    IF Len(v) = 0 \/ Len(v) > 8 THEN [st |-> "panic", v |-> 0]
    ELSE [st |-> "ok", v |-> SBE(Zeros(8 - Len(v)) \o v)]

\* fn parse_varint(v: &[u8]) -> i64: aborts on v[0] of an empty slice and on
\* 8 - v.len() for a slice longer than 8 (overflow, or the slice index it yields)
parse_varint(v) ==
    IF Len(v) = 0 \/ Len(v) > 8 THEN [st |-> "panic", v |-> 0]
    ELSE LET start == 8 - Len(v)
             is_positive == v[1] < 128
             buf == (IF is_positive THEN Zeros(start) ELSE Ones(start)) \o v
         IN  [st |-> "ok", v |-> SBE(buf)]

VarintMaxLen == 10

read_cql_varint(b, p, len) ==
    Try(read_bytes(b, p, len), LAMBDA v :
        IF Len(v.v) > VarintMaxLen THEN Err("Protocol", v.p)
        ELSE IF parse_varint(v.v).st = "ok" THEN Ok(parse_varint(v.v).v, v.p) ELSE Panic(v.p))

\* arms that read the type's width whatever the cell's length is
Fixed_anyLength(b, p, len, width, tag, signed) ==
    Try(read_exact(b, p, width),
        LAMBDA r : Ok(<<tag, IF signed THEN SBE(r.v) ELSE UBE(r.v)>>, r.p))

\* the arms `N => <read N bytes>, _len => return Err(Error::Protocol)`
Fixed(b, p, len, width, tag, signed) ==
    IF len # width THEN Err("Protocol", p)
    ELSE Try(read_exact(b, p, width),
             LAMBDA r : Ok(<<tag, IF signed THEN SBE(r.v) ELSE UBE(r.v)>>, r.p))

\* the arms that fill a fixed array with read_full
FixedBytes(b, p, width) == read_full(b, p, width)

\* the Value variant of a string column
StringVariant(col_type) ==
    IF col_type = "Ascii" THEN "CqlAscii" ELSE IF col_type = "Text" THEN "CqlText" ELSE "CqlVarChar"

read_cql_col_ty(b, p, col_type, len) ==
    IF col_type \in {"Ascii", "Text", "VarChar"}
    THEN Try(read_cql_str_len(b, p, len), LAMBDA r : Ok(<<StringVariant(col_type), r.v>>, r.p))
    ELSE IF col_type = "Bigint" THEN Fixed(b, p, len, 8, "CqlBigint", TRUE)
    ELSE IF col_type = "Blob"
    THEN Try(read_bytes(b, p, len), LAMBDA r : Ok(<<"CqlBlob", r.v>>, r.p))
    ELSE IF col_type = "Boolean"
    THEN IF len # 1 THEN Err("Protocol", p)
         ELSE Try(read_u8(b, p), LAMBDA r : Ok(<<"CqlBoolean", r.v # 0>>, r.p))
    ELSE IF col_type = "Counter" THEN Err("Unimplemented", p)
    ELSE IF col_type = "Decimal"
    THEN Try(read_int(b, p), LAMBDA scale :
         Try(read_cql_varint(b, scale.p, len), LAMBDA unscaled :
         Ok(<<"CqlDecimal", <<scale.v, unscaled.v>>>>, unscaled.p)))
    ELSE IF col_type = "Double" THEN Fixed(b, p, len, 8, "CqlDouble", FALSE)
    ELSE IF col_type = "Float" THEN Fixed(b, p, len, 4, "CqlFloat", FALSE)
    ELSE IF col_type = "Int" THEN Fixed(b, p, len, 4, "CqlInt", TRUE)
    ELSE IF col_type = "Timestamp" THEN Fixed(b, p, len, 8, "CqlTimestamp", TRUE)
    ELSE IF col_type \in {"UUID", "TimeUUID"}
    THEN IF len # 16 THEN Err("Protocol", p)
         ELSE Try(FixedBytes(b, p, 16), LAMBDA r :
                  Ok(<<IF col_type = "UUID" THEN "CqlUUID" ELSE "CqlTimeUUID", r.v>>, r.p))
    ELSE IF col_type = "VarInt"
    THEN Try(read_cql_varint(b, p, len), LAMBDA r : Ok(<<"CqlVarInt", r.v>>, r.p))
    ELSE IF col_type = "Inet"
    THEN IF len \notin {4, 16} THEN Err("Protocol", p)
         ELSE Try(FixedBytes(b, p, len), LAMBDA r :
                  Ok(<<"CqlInet", <<IF len = 4 THEN "V4" ELSE "V6", r.v>>>>, r.p))
    ELSE IF col_type \in {"Custom", "List", "Map", "Set", "UDT", "Tuple"}
    THEN Panic(p)  \* unreachable!("non-singular type on read_cql_col_ty")
    ELSE Try(read_bytes(b, p, len), LAMBDA r : Ok(<<"CqlUnknown", <<>>>>, r.p))

RECURSIVE read_cql_col(_, _, _)
RECURSIVE ColLoop(_, _, _, _, _)
RECURSIVE PairLoop(_, _, _, _, _)
RECURSIVE RowLoop(_, _, _, _)
RECURSIVE TupleLoop(_, _, _, _, _)

\* for _ in 0..n { l.push(self.read_cql_col(ty)?); }
ColLoop(b, p, ty, n, acc) ==
    IF n = 0 THEN Ok(acc, p)
    ELSE Try(read_cql_col(b, p, ty), LAMBDA r : ColLoop(b, r.p, ty, n - 1, Append(acc, r.v)))

\* for _ in 0..n { key = read_cql_col(&ty_tup.0)?; val = read_cql_col(&ty_tup.1)?; l.push((key, val)); }
PairLoop(b, p, ty_tup, n, acc) ==
    IF n = 0 THEN Ok(acc, p)
    ELSE Try(read_cql_col(b, p, ty_tup[1]), LAMBDA key :
         Try(read_cql_col(b, key.p, ty_tup[2]), LAMBDA val :
         PairLoop(b, val.p, ty_tup, n - 1, Append(acc, <<key.v, val.v>>))))

\* for ty in ty_list.iter() { row.push(self.read_cql_col(ty)?); }
RowLoop(b, p, ty_list, acc) ==
    IF Len(ty_list) = 0 THEN Ok(acc, p)
    ELSE Try(read_cql_col(b, p, Head(ty_list)),
             LAMBDA r : RowLoop(b, r.p, Tail(ty_list), Append(acc, r.v)))

\* for _ in 0..n { <one row over ty_list>; l.push(row) }
TupleLoop(b, p, ty_list, n, acc) ==
    IF n = 0 THEN Ok(acc, p)
    ELSE Try(RowLoop(b, p, ty_list, <<>>),
             LAMBDA row : TupleLoop(b, row.p, ty_list, n - 1, Append(acc, row.v)))

\* the collection arms of read_cql_col: the element count, then the elements
read_cql_collection(b, p, col_type) ==
    Try(read_int(b, p), LAMBDA n :
        IF n.v < 0 THEN Panic(n.p)  \* Vec::with_capacity(2^64 + n)
        ELSE IF Tag(col_type) = "List"
        THEN Try(ColLoop(b, n.p, Val(col_type), n.v, <<>>), LAMBDA r : Ok(<<"CqlList", r.v>>, r.p))
        ELSE IF Tag(col_type) = "Set"
        THEN Try(ColLoop(b, n.p, Val(col_type), n.v, <<>>), LAMBDA r : Ok(<<"CqlSet", r.v>>, r.p))
        ELSE IF Tag(col_type) = "Map"
        THEN Try(PairLoop(b, n.p, Val(col_type), n.v, <<>>), LAMBDA r : Ok(<<"CqlMap", r.v>>, r.p))
        ELSE Try(TupleLoop(b, n.p, Val(col_type), n.v, <<>>),
                 LAMBDA r : Ok(<<"CqlTuple", r.v>>, r.p)))

read_cql_col(b, p, col_type) ==
    Try(read_int(b, p), LAMBDA len :
        IF len.v = 0 - 1 THEN Ok(<<"CqlNull", <<>>>>, len.p)
        ELSE IF Tag(col_type) = "Custom"
        THEN Try(read_bytes(b, len.p, len.v),
                 LAMBDA data : Ok(<<"CqlCustom", <<Val(col_type), data.v>>>>, data.p))
        ELSE IF Tag(col_type) = "Single" THEN read_cql_col_ty(b, len.p, Val(col_type), len.v)
        ELSE read_cql_collection(b, len.p, col_type))

-----------------------------------------------------------------------------
(* Request bodies and frames (impl CqlSerializable for ...).               *)

ShortString_serialize(str) == BEu(Len(str), 2) \o str
ShortString_len_(str) == Len(str) + 2

LongString_serialize(str) == BEu(Len(str), 4) \o str
LongString_len_(str) == Len(str) + 4

Pair_serialize(pair) == ShortString_serialize(pair.key) \o ShortString_serialize(pair.value)
Pair_len_(pair) == ShortString_len_(pair.key) + ShortString_len_(pair.value)

RECURSIVE PairsSerialize(_)
PairsSerialize(pairs) ==
    IF Len(pairs) = 0 THEN <<>> ELSE Pair_serialize(Head(pairs)) \o PairsSerialize(Tail(pairs))

RECURSIVE PairsLen(_)
PairsLen(pairs) == IF Len(pairs) = 0 THEN 0 ELSE Pair_len_(Head(pairs)) + PairsLen(Tail(pairs))

StringMap_serialize(pairs) == BEu(Len(pairs), 2) \o PairsSerialize(pairs)
StringMap_len_(pairs) == 2 + PairsLen(pairs)

\* a serialize without the flags byte
QueryParams_serialize_noFlags(qp) ==
    After(BEu(Consistency_as_u16(qp.con), 2) \o BEu(Len(qp.params), 2),
          SerializeAll(qp.params))

QueryParams_serialize(qp) ==
    After(BEu(Consistency_as_u16(qp.con), 2) \o <<1>> \o BEu(Len(qp.params), 2),
          SerializeAll(qp.params))

\* a len_ that leaves out the two bytes of the value count
QueryParams_len_noCount(qp) == AddLen(3, SumLen(qp.params))

QueryParams_len_(qp) == AddLen(3 + 2, SumLen(qp.params))

\* buf.write_u16(self.id.len() as u16); buf.write_all(&self.id)
ShortBytes_serialize(id) == BEu(Len(id) % 65536, 2) \o id

\* a body is <<struct name, fields>>
Body_serialize(body) ==
    LET t == Tag(body) f == Val(body) IN
    IF t = "BodyStartup" THEN WOk(StringMap_serialize(f.body))
    ELSE IF t = "BodyQuery"
    THEN After(LongString_serialize(f.query), QueryParams_serialize(f.params))
    ELSE IF t = "BodyExecute"
    THEN After(ShortBytes_serialize(f.id), QueryParams_serialize(f.params))
    ELSE IF t = "BodyPrepare" THEN WOk(LongString_serialize(f.query))
    ELSE WOk(<<>>)  \* BodyEmpty

Body_len_(body) ==
    LET t == Tag(body) f == Val(body) IN
    IF t = "BodyStartup" THEN StringMap_len_(f.body)
    ELSE IF t = "BodyQuery" THEN AddLen(LongString_len_(f.query), QueryParams_len_(f.params))
    ELSE IF t = "BodyExecute" THEN AddLen(2 + Len(f.id), QueryParams_len_(f.params))
    ELSE IF t = "BodyPrepare" THEN LongString_len_(f.query)
    ELSE 0  \* BodyEmpty

CQL_VERSION == 3

\* FrameHeader::new
FrameHeader_new(stream, op) == [version |-> CQL_VERSION, flags |-> 0, stream |-> stream, opcode |-> op]

FrameHeaderLen == 9

Request_len_(r) == AddLen(Body_len_(r.body), FrameHeaderLen)

\* the first five bytes: version, flags, stream, opcode
FrameHeader_bytes(header) ==
    <<header.version, header.flags>> \o BEs(header.stream, 2) \o <<Opcode_as_u8(header.opcode)>>

\* buf.write_u32(self.body.len_() as u32)?; self.body.serialize(buf)?, len being body.len_()
LengthAndBody(len, body) ==
    IF len < 0 THEN WErr("panic", <<>>) ELSE After(BEu(len, 4), Body_serialize(body))

Request_serialize(r) == After(FrameHeader_bytes(r.header), LengthAndBody(Body_len_(r.body), r.body))

\* a to_vec that hands out the buffer as far as serialize filled it
VecOf_partial(w) == WOk(w.out)

\* Ok(s) when serialize returned Ok, else its error and no vector
VecOf(w) == IF w.st = "ok" THEN w ELSE WErr(w.st, <<>>)

\* CqlSerializable::to_vec: Vec::with_capacity(self.len_()), then serialize into it
to_vec(r) ==
    IF Request_len_(r) < 0 THEN WErr("panic", <<>>) ELSE VecOf(Request_serialize(r))

\* byte strings of the literals in the source
Str_CQL_VERSION == <<67, 81, 76, 95, 86, 69, 82, 83, 73, 79, 78>>
Str_3_0_0 == <<51, 46, 48, 46, 48>>
Str_KEYSPACE == <<75, 69, 89, 83, 80, 65, 67, 69>>
Str_TABLE == <<84, 65, 66, 76, 69>>
Str_TYPE == <<84, 89, 80, 69>>

startup ==
    [header |-> FrameHeader_new(1, "Startup"),
     body |-> <<"BodyStartup", [body |-> <<[key |-> Str_CQL_VERSION, value |-> Str_3_0_0]>>]>>]

options == [header |-> FrameHeader_new(1, "Opts"), body |-> <<"BodyEmpty", <<>>>>]

query(stream, query_str, con, params) ==
    [header |-> FrameHeader_new(stream, "Query"),
     body |-> <<"BodyQuery", [query |-> query_str, params |-> [con |-> con, params |-> params]]>>]

prepare(stream, query_str) ==
    [header |-> FrameHeader_new(stream, "Prepare"),
     body |-> <<"BodyPrepare", [query |-> query_str]>>]

execute(stream, id, con, params) ==
    [header |-> FrameHeader_new(stream, "Execute"),
     body |-> <<"BodyExecute", [id |-> id, params |-> [con |-> con, params |-> params]]>>]

-----------------------------------------------------------------------------
(* Response decoding.                                                      *)

\* column type descriptors that leave out the last column
ColTypes_butLast(row_metadata) ==
    [i \in 1..(Len(row_metadata) - 1) |-> row_metadata[i].col_type]

\* the column type descriptors of a metadata, in column order
ColTypes(row_metadata) == [i \in 1..Len(row_metadata) |-> row_metadata[i].col_type]

\* for _ in 0..rows_count { <one row over metadata.row_metadata>; rows.push(Row {..}) }
RECURSIVE RowsLoop(_, _, _, _, _)
RowsLoop(b, p, metadata, n, acc) ==
    IF n = 0 THEN Ok(acc, p)
    ELSE Try(RowLoop(b, p, ColTypes(metadata.row_metadata), <<>>), LAMBDA cols :
             RowsLoop(b, cols.p, metadata, n - 1,
                      Append(acc, [cols |-> cols.v, metadata |-> metadata])))

read_cql_rows(b, p) ==
    Try(read_cql_metadata(b, p), LAMBDA metadata :
    Try(read_u32(b, metadata.p), LAMBDA rows_count :
    Try(RowsLoop(b, rows_count.p, metadata.v, rows_count.v, <<>>), LAMBDA rows :
    Ok([metadata |-> metadata.v, rows |-> rows.v], rows.p))))

\* an arm 0x0005 that reads a name for every target but "KEYSPACE"
read_schema_change_any_target(b, p) ==
    Try(read_cql_str(b, p), LAMBDA change_type :
    Try(read_cql_str(b, change_type.p), LAMBDA target :
    Try(read_cql_str(b, target.p), LAMBDA ks_name :
        IF target.v = Str_KEYSPACE
        THEN Ok(<<"SchemaChange", <<change_type.v, target.v, ks_name.v, None>>>>, ks_name.p)
        ELSE Try(read_cql_str(b, ks_name.p), LAMBDA target_name :
                 Ok(<<"SchemaChange",
                      <<change_type.v, target.v, ks_name.v, Some(target_name.v)>>>>,
                    target_name.p)))))

\* the arm 0x0005 of read_cql_result
read_schema_change(b, p) ==
    Try(read_cql_str(b, p), LAMBDA change_type :
    Try(read_cql_str(b, change_type.p), LAMBDA target :
    Try(read_cql_str(b, target.p), LAMBDA ks_name :
        IF target.v = Str_KEYSPACE
        THEN Ok(<<"SchemaChange", <<change_type.v, target.v, ks_name.v, None>>>>, ks_name.p)
        ELSE IF target.v \in {Str_TABLE, Str_TYPE}
        THEN Try(read_cql_str(b, ks_name.p), LAMBDA target_name :
                 Ok(<<"SchemaChange",
                      <<change_type.v, target.v, ks_name.v, Some(target_name.v)>>>>,
                    target_name.p))
        ELSE Err("Protocol", ks_name.p))))

\* the arms of `match code`, the reader being at p
result_of(b, p, code) ==
    IF code = 1 THEN Ok(<<"Void", <<>>>>, p)
    ELSE IF code = 2 THEN Try(read_cql_rows(b, p), LAMBDA r : Ok(<<"Rows", r.v>>, r.p))
    ELSE IF code = 3 THEN Try(read_cql_str(b, p), LAMBDA msg : Ok(<<"Keyspace", msg.v>>, msg.p))
    ELSE IF code = 4
    THEN Try(read_short(b, p), LAMBDA len :
         Try(read_bytes(b, len.p, len.v), LAMBDA id :
         Try(read_cql_metadata(b, id.p), LAMBDA metadata :
         Ok(<<"Prepared", <<id.v, metadata.v>>>>, metadata.p))))
    ELSE IF code = 5 THEN read_schema_change(b, p)
    ELSE Err("Protocol", p)

read_cql_result(b, p) == Try(read_u32(b, p), LAMBDA code : result_of(b, code.p, code.v))

AlreadyExists == 9216

\* an Error arm that turns the server's error into a client fault
read_cql_error_as_fault(b, p) == Try(read_u32(b, p), LAMBDA code : Err("Protocol", code.p))

\* the Opcode::Error arm of read_cql_body
read_cql_error(b, p) ==
    Try(read_u32(b, p), LAMBDA code :
    Try(read_cql_str(b, code.p), LAMBDA msg :
        IF code.v = AlreadyExists
        THEN Try(read_cql_str(b, msg.p), LAMBDA ks :
             Try(read_cql_str(b, ks.p), LAMBDA namespace :
             Ok(<<"Error", <<code.v, msg.v>>>>, namespace.p)))
        ELSE Ok(<<"Error", <<code.v, msg.v>>>>, msg.p)))

read_cql_body(b, p, op) ==
    IF op = "Ready" THEN Ok(<<"Ready", <<>>>>, p)
    ELSE IF op = "Auth" THEN Try(read_cql_str(b, p), LAMBDA r : Ok(<<"Auth", r.v>>, r.p))
    ELSE IF op = "Error" THEN read_cql_error(b, p)
    ELSE IF op = "Result" THEN Try(read_cql_result(b, p), LAMBDA r : Ok(<<"Result", r.v>>, r.p))
    ELSE IF op = "Supported"
    THEN Try(read_cql_string_multimap(b, p), LAMBDA r : Ok(<<"Supported", r.v>>, r.p))
    ELSE Err("Protocol", p)

\* A frame read is a reader result with two more fields: framed says that the whole
\* header and body_data were read from the reader, used is reader.position() of the
\* Cursor over body_data afterwards (the code only logs it).
FrameRead(r, framed, used) == [st |-> r.st, v |-> r.v, p |-> r.p, framed |-> framed, used |-> used]

\* the result of the body decoded on its own Cursor, the outer reader being at p
Decoded(body, p) == [st |-> body.st, v |-> body.v, p |-> p, framed |-> TRUE, used |-> body.p]

\* the result of a body decoded straight from the outer reader, which was at p
Streamed(body, p) ==
    [st |-> body.st, v |-> body.v, p |-> body.p, framed |-> TRUE, used |-> body.p - p]

\* a body read that decodes from the transport itself and ignores the length field
read_frame_body_unframed(b, p, op, length) == Streamed(read_cql_body(b, p, op), p)

\* body_data = self.read_bytes(length)?; Cursor::new(body_data).read_cql_body(opcode)?
read_frame_body(b, p, op, length) ==
    IF read_bytes(b, p, length).st # "ok" THEN FrameRead(read_bytes(b, p, length), FALSE, 0)
    ELSE Decoded(read_cql_body(read_bytes(b, p, length).v, 0, op), p + length)

\* Ok(Response { header, body })
Response(header, body) ==
    IF body.st # "ok" THEN body ELSE [body EXCEPT !.v = [header |-> header, body |-> body.v]]

\* the header fields of the nine bytes h, and the body read after them
read_after_header(b, p, h) ==
    Response([version |-> h[1], flags |-> h[2], stream |-> SBE(SubSeq(h, 3, 4)),
              opcode |-> opcode(h[5])],
             read_frame_body(b, p, opcode(h[5]), UBE(SubSeq(h, 6, 9))))

\* read_cql_response on a reader (b, p); the result's p is the reader's position afterwards
read_cql_response(b, p) ==
    IF read_bytes(b, p, FrameHeaderLen).st # "ok"
    THEN FrameRead(read_bytes(b, p, FrameHeaderLen), FALSE, 0)
    ELSE read_after_header(b, p + FrameHeaderLen, read_bytes(b, p, FrameHeaderLen).v)

-----------------------------------------------------------------------------
(* The transport and the server behind it. The Client owns one TcpStream;  *)
(* write_all hands it a request, reads deliver the server's bytes in order *)
(* and report end-of-stream once the server has closed. The server answers *)
(* a request with bytes of its choice: the frames of the crate's tests,    *)
(* further frames of the same shapes, and malformed ones.                  *)

\* a response frame as the server lays it out: version 0x83, flags, stream, opcode, length, body
ServerFrame(stream, op, body) ==
    <<131, 0>> \o BEs(stream, 2) \o <<op>> \o BEu(Len(body), 4) \o body

\* [string] as the server writes it
SStr(s) == BEu(Len(s), 2) \o s

Str_ks == <<107, 115>>
Str_bad == <<98, 97, 100>>
Str_Auth == <<111, 114, 103, 46, 80, 119, 100>>
Str_CREATED == <<67, 82, 69, 65, 84, 69, 68>>

\* what the server does in answer to one call: the bytes it sends and whether it then
\* closes; kind, stream, code, msg and id describe the frame the bytes were laid out from
Answer(kind, stream, code, msg, id, bytes, closes) ==
    [kind |-> kind, stream |-> stream, code |-> code, msg |-> msg, id |-> id,
     bytes |-> bytes, closes |-> closes]

NoAnswer == Answer("none", 0, 0, <<>>, <<>>, <<>>, FALSE)
Closes == Answer("close", 0, 0, <<>>, <<>>, <<>>, TRUE)

ErrorAnswer(stream, code, msg, trailer) ==
    Answer("error", stream, code, msg, <<>>,
           ServerFrame(stream, 0, BEu(code, 4) \o SStr(msg) \o trailer), FALSE)

\* metadata with the global-tables flag: flags, column count, keyspace, table, columns
MetaGlobal(cols) ==
    BEu(1, 4) \o BEu(Len(cols), 4) \o SStr(Str_ks) \o SStr(<<116>>)
    \o Flatten([i \in 1..Len(cols) |-> SStr(<<99, 48 + i>>) \o BEu(cols[i], 2)])

PreparedAnswer(stream, id) ==
    Answer("prepared", stream, 0, <<>>, id,
           ServerFrame(stream, 8, BEu(4, 4) \o SStr(id) \o MetaGlobal(<<9, 13>>)), FALSE)

\* the [option] of a user-defined type ks.u with one int field f
UdtOption == BEu(48, 2) \o SStr(Str_ks) \o SStr(<<117>>) \o BEu(1, 2) \o SStr(<<102>>) \o BEu(9, 2)

\* a Prepared result for three bind variables (c1 ks.u, c2 int, c3 int)
PreparedUdtAnswer(stream, id) ==
    Answer("prepared", stream, 0, <<>>, id,
           ServerFrame(stream, 8, BEu(4, 4) \o SStr(id)
                                  \o BEu(1, 4) \o BEu(3, 4) \o SStr(Str_ks) \o SStr(<<116>>)
                                  \o SStr(<<99, 49>>) \o UdtOption
                                  \o SStr(<<99, 50>>) \o BEu(9, 2)
                                  \o SStr(<<99, 51>>) \o BEu(9, 2)), FALSE)

\* a Prepared result whose metadata ends after the flags
PreparedCutAnswer(stream, id) ==
    Answer("prepared_cut", stream, 0, <<>>, id,
           ServerFrame(stream, 8, BEu(4, 4) \o SStr(id) \o BEu(1, 4)), FALSE)

VoidFrame(stream) == ServerFrame(stream, 8, BEu(1, 4))
ReadyFrame(stream) == ServerFrame(stream, 2, <<>>)

\* one row (1, "ab") under columns (c1 int, c2 varchar)
RowsFrame(stream) ==
    ServerFrame(stream, 8, BEu(2, 4) \o MetaGlobal(<<9, 13>>) \o BEu(1, 4)
                           \o BEu(4, 4) \o BEu(1, 4) \o BEu(2, 4) \o <<97, 98>>)

ServerStreams == {0, 1}
ServerIds == {<<7>>, <<1, 2>>}

AnswersOn(stream) ==
    { Answer("ready", stream, 0, <<>>, <<>>, ReadyFrame(stream), FALSE),
      Answer("auth", stream, 0, Str_Auth, <<>>, ServerFrame(stream, 3, SStr(Str_Auth)), FALSE),
      ErrorAnswer(stream, 8704, Str_bad, <<>>),
      ErrorAnswer(stream, AlreadyExists, Str_bad, SStr(Str_ks) \o SStr(<<>>)),
      Answer("supported", stream, 0, <<>>, <<>>,
             ServerFrame(stream, 6, BEu(1, 2) \o SStr(Str_CQL_VERSION)
                                    \o BEu(1, 2) \o SStr(Str_3_0_0)), FALSE),
      Answer("void", stream, 0, <<>>, <<>>, VoidFrame(stream), FALSE) }

AnswersOnZero ==
    { ErrorAnswer(0, 4096, <<>>, <<0, 1, 0, 0, 0, 2, 0, 0, 0, 1>>),
      Answer("error_bad_utf8", 0, 8704, <<255>>, <<>>,
             ServerFrame(0, 0, BEu(8704, 4) \o SStr(<<255>>)), FALSE),
      Answer("error_cut", 0, AlreadyExists, Str_bad, <<>>,
             ServerFrame(0, 0, BEu(AlreadyExists, 4) \o SStr(Str_bad)), FALSE),
      Answer("void_trailing", 0, 0, <<>>, <<>>, ServerFrame(0, 8, BEu(1, 4) \o <<9, 9>>), FALSE),
      Answer("void_then_ready", 0, 0, <<>>, <<>>, VoidFrame(0) \o ReadyFrame(0), FALSE),
      Answer("void_then_close", 0, 0, <<>>, <<>>, VoidFrame(0), TRUE),
      Answer("keyspace", 0, 0, Str_ks, <<>>, ServerFrame(0, 8, BEu(3, 4) \o SStr(Str_ks)), FALSE),
      Answer("schema_change", 0, 0, Str_CREATED, <<>>,
             ServerFrame(0, 8, BEu(5, 4) \o SStr(Str_CREATED) \o SStr(Str_TABLE)
                               \o SStr(Str_ks) \o SStr(<<116>>)), FALSE),
      Answer("rows", 0, 0, <<>>, <<>>, RowsFrame(0), FALSE),
      Answer("result_unknown", 0, 9, <<>>, <<>>, ServerFrame(0, 8, BEu(9, 4)), FALSE),
      Answer("result_short", 0, 0, <<>>, <<>>, ServerFrame(0, 8, <<0, 0>>), FALSE),
      Answer("event", 0, 0, <<>>, <<>>, ServerFrame(0, 12, SStr(Str_bad)), FALSE),
      Answer("header_cut", 0, 0, <<>>, <<>>, SubSeq(VoidFrame(0), 1, 5), TRUE),
      Answer("body_cut", 0, 0, <<>>, <<>>, SubSeq(RowsFrame(0), 1, 20), TRUE),
      Closes }
    \cup {PreparedAnswer(0, id) : id \in ServerIds}
    \cup {PreparedUdtAnswer(0, <<3>>), PreparedCutAnswer(0, <<7>>)}

ServerAnswers == UNION {AnswersOn(stream) : stream \in ServerStreams} \cup AnswersOnZero

\* the arguments of a call, the value a call returns, and a call that read no response
NoCall == [name |-> "none", q |-> <<>>, id |-> <<>>, con |-> "One", params |-> <<>>]
Ret(st, v) == [st |-> st, v |-> v]
NoRead ==
    [did |-> FALSE, avail |-> <<>>, st |-> "none", v |-> <<>>, p |-> 0, framed |-> FALSE,
     used |-> 0]

-----------------------------------------------------------------------------
(* The codec development: a value or a request is drawn, and the encoder   *)
(* and the decoder are applied to it.                                      *)

MaxElems == 2      \* elements of a collection value

SeqsUpTo(S, n) == UNION {[1..k -> S] : k \in 0..n}

Null == <<"CqlNull", <<>>>>

Bytes16 == [i \in 1..16 |-> i * 15]

\* sample values of each leaf type the encoder and the decoder both support
LeafSeq(ty) ==
    CASE ty = "Ascii" -> << <<"CqlAscii", <<>>>>, <<"CqlAscii", <<97>>>> >>
      [] ty = "Text" -> << <<"CqlText", <<195, 169>>>>, <<"CqlText", <<97, 98>>>> >>
      [] ty = "VarChar" -> << <<"CqlVarChar", <<>>>>, <<"CqlVarChar", <<120, 121, 122>>>> >>
      [] ty = "Bigint" -> << <<"CqlBigint", 0 - 1073741823>>, <<"CqlBigint", 0>>,
                             <<"CqlBigint", 0 - 1>>, <<"CqlBigint", 258>> >>
      [] ty = "Timestamp" -> << <<"CqlTimestamp", 0 - 129>>, <<"CqlTimestamp", 65536>> >>
      [] ty = "Int" -> << <<"CqlInt", 0 - 1>>, <<"CqlInt", 0>>, <<"CqlInt", 0 - 1073741823>>,
                          <<"CqlInt", 16909060>> >>
      [] ty = "Boolean" -> << <<"CqlBoolean", FALSE>>, <<"CqlBoolean", TRUE>> >>
      [] ty = "Blob" -> << <<"CqlBlob", <<>>>>, <<"CqlBlob", <<0, 255>>>> >>
      [] ty = "UUID" -> << <<"CqlUUID", Zeros(16)>>, <<"CqlUUID", Bytes16>> >>
      [] ty = "TimeUUID" -> << <<"CqlTimeUUID", Ones(16)>>, <<"CqlTimeUUID", Bytes16>> >>
      [] ty = "Inet" -> << <<"CqlInet", <<"V4", <<127, 0, 0, 1>>>>>>,
                           <<"CqlInet", <<"V6", Bytes16>>>> >>
      [] ty = "VarInt" -> << <<"CqlVarInt", 0 - 129>>, <<"CqlVarInt", 0>>, <<"CqlVarInt", 0 - 1>>,
                             <<"CqlVarInt", 1073741823>>, <<"CqlVarInt", 128>> >>

RoundTripLeaves ==
    {"Ascii", "Text", "VarChar", "Bigint", "Timestamp", "Int", "Boolean", "Blob", "UUID",
     "TimeUUID", "Inet", "VarInt"}

Range(f) == {f[i] : i \in DOMAIN f}

Single(ty) == <<"Single", ty>>
ClassName == <<111, 114, 103, 46, 88>>
DeepDescr == <<"List", <<"Map", <<Single("Text"), <<"Tuple", <<Single("Int"), <<"List", Single("Boolean")>>>>>>>>>>>>

\* the collection descriptors the round trip is tried on
CollectionDescrs ==
    { <<"List", Single("Int")>>, <<"List", Single("Text")>>, <<"List", Single("Inet")>>,
      <<"Set", Single("Boolean")>>, <<"Set", Single("VarInt")>>, <<"Set", <<"Custom", ClassName>>>>,
      <<"Map", <<Single("Text"), Single("Int")>>>>, <<"Map", <<Single("Bigint"), Single("Blob")>>>>,
      <<"Tuple", <<>>>>, <<"Tuple", <<Single("UUID")>>>>,
      <<"Tuple", <<Single("Ascii"), Single("Timestamp")>>>>,
      <<"List", <<"List", Single("Int")>>>>,
      <<"Map", <<Single("VarChar"), <<"Set", Single("TimeUUID")>>>>>>,
      DeepDescr }

RECURSIVE RepSeq(_)
\* the elements a collection of element type d is filled with, in this order
ElemSeq(d) == <<RepSeq(d)[2], Null, RepSeq(d)[1]>>
Elems(d) == Range(ElemSeq(d))
Cycle(sq, n) == [i \in 1..n |-> sq[((i - 1) % Len(sq)) + 1]]
FullSeq(d) == Cycle(ElemSeq(d), MaxElems)
FullRow(tys) == [j \in 1..Len(tys) |-> ElemSeq(tys[j])[((j - 1) % 3) + 1]]

\* two representative values of descriptor d: a small one and a full one
RepSeq(d) ==
    LET t == Tag(d) IN
    IF t = "Single" THEN <<LeafSeq(Val(d))[1], LeafSeq(Val(d))[Len(LeafSeq(Val(d)))]>>
    ELSE IF t = "Custom"
    THEN << <<"CqlCustom", <<Val(d), <<>>>>>>, <<"CqlCustom", <<Val(d), <<1, 2, 3>>>>>> >>
    ELSE IF t = "List"
    THEN << <<"CqlList", <<>>>>, <<"CqlList", FullSeq(Val(d))>> >>
    ELSE IF t = "Set"
    THEN << <<"CqlSet", <<>>>>, <<"CqlSet", FullSeq(Val(d))>> >>
    ELSE IF t = "Map"
    THEN << <<"CqlMap", <<>>>>,
            <<"CqlMap", [i \in 1..MaxElems |-> <<FullSeq(Val(d)[1])[i],
                                                 Cycle(ElemSeq(Val(d)[2]), MaxElems + 1)[i + 1]>>]>> >>
    ELSE << <<"CqlTuple", <<>>>>, <<"CqlTuple", [i \in 1..MaxElems |-> FullRow(Val(d))]>> >>

\* the rows a tuple of element types tys can hold
RowsOf(tys) ==
    {r \in [1..Len(tys) -> UNION {Elems(tys[j]) : j \in 1..Len(tys)}] :
        \A j \in 1..Len(tys) : r[j] \in Elems(tys[j])}

\* the values of descriptor d the round trip is tried on
ValuesOf(d) ==
    LET t == Tag(d) IN
    {Null} \cup
    (IF t = "Single" THEN Range(LeafSeq(Val(d)))
     ELSE IF t = "Custom" THEN Range(RepSeq(d))
     ELSE IF t = "List" THEN {<<"CqlList", sq>> : sq \in SeqsUpTo(Elems(Val(d)), MaxElems)}
     ELSE IF t = "Set" THEN {<<"CqlSet", sq>> : sq \in SeqsUpTo(Elems(Val(d)), MaxElems)}
     ELSE IF t = "Map"
     THEN {<<"CqlMap", sq>> : sq \in SeqsUpTo(Elems(Val(d)[1]) \X Elems(Val(d)[2]), MaxElems)}
     ELSE {<<"CqlTuple", sq>> : sq \in SeqsUpTo(RowsOf(Val(d)), MaxElems)})

RoundTripDescrs ==
    {Single(ty) : ty \in RoundTripLeaves} \cup {<<"Custom", ClassName>>} \cup CollectionDescrs

RoundTripInputs == UNION {{<<"value", <<d, v>>>> : v \in ValuesOf(d)} : d \in RoundTripDescrs}

\* the arguments the request encoders are tried on
LongQuery == [i \in 1..300 |-> 97]
LongId == [i \in 1..258 |-> i % 256]
Queries == {<<>>, <<113>>, <<115, 195, 169>>, LongQuery}
Ids == {<<>>, <<7>>, <<1, 2>>, LongId}
Consistencies ==
    {"Any", "One", "Two", "Three", "Quorum", "All", "LocalQuorum", "EachQuorum", "Unknown"}
Counter5 == <<"CqlCounter", 5>>
Decimal314 == <<"CqlDecimal", <<2, 314>>>>
ParamLists ==
    { <<>>, << <<"CqlInt", 0>> >>, << <<"CqlText", <<97, 98>>>>, Null >>,
      << RepSeq(DeepDescr)[2] >>, << Counter5 >>, << <<"CqlInt", 7>>, Decimal314 >>,
      << <<"CqlList", << <<"CqlUDT", <<>>>> >>>> >>, << <<"CqlUnknown", <<>>>> >> }

ReqArgs(name, q, id, con, params) ==
    <<"request", [name |-> name, q |-> q, id |-> id, con |-> con, params |-> params]>>

RequestInputs ==
    {ReqArgs("startup", <<>>, <<>>, "One", <<>>), ReqArgs("options", <<>>, <<>>, "One", <<>>)}
    \cup {ReqArgs("query", q, <<>>, c, ps) : q \in Queries, c \in Consistencies, ps \in ParamLists}
    \cup {ReqArgs("prepare", q, <<>>, "One", <<>>) : q \in Queries}
    \cup {ReqArgs("execute", <<>>, id, c, ps) : id \in Ids, c \in Consistencies, ps \in ParamLists}

\* the Request the library builds for a call: options() is on stream 1, the rest on stream 0
RequestOf(a) ==
    CASE a.name = "startup" -> startup
      [] a.name = "options" -> options
      [] a.name = "query" -> query(0, a.q, a.con, a.params)
      [] a.name = "prepare" -> prepare(0, a.q)
      [] a.name = "execute" -> execute(0, a.id, a.con, a.params)

ClientIdle ==
    /\ client = "none" /\ socket = "unopened" /\ inb = <<>> /\ eof = FALSE /\ iolog = <<>>
    /\ ncalls = 0 /\ call = NoCall /\ req = WOk(<<>>) /\ sent = <<>> /\ rd = NoRead
    /\ res = Ret("none", <<>>) /\ srv = NoAnswer /\ held = <<>>

clientVars == <<client, socket, inb, eof, iolog, ncalls, call, req, sent, rd, res, srv, held>>

CodecInit ==
    /\ cop = "init"
    /\ cin \in RoundTripInputs \cup RequestInputs
    /\ cout = <<>>
    /\ ClientIdle

\* Value::serialize, then read_cql_col on the bytes written, under the value's descriptor
RoundTrip ==
    /\ cop = "init"
    /\ Tag(cin) = "value"
    /\ cop' = "round_trip"
    /\ LET enc == Value_serialize(Val(cin)[2])
       IN  cout' = [enc |-> enc, dec |-> read_cql_col(enc.out, 0, Val(cin)[1])]
    /\ UNCHANGED <<cin, clientVars>>

\* to_vec of a request, with len_ and serialize of its body
EncodeRequest ==
    /\ cop = "init"
    /\ Tag(cin) = "request"
    /\ cop' = "encode_request"
    /\ LET r == RequestOf(Val(cin))
       IN  cout' = [vec |-> to_vec(r), body_len |-> Body_len_(r.body),
                    body |-> Body_serialize(r.body)]
    /\ UNCHANGED <<cin, clientVars>>

CodecNext == RoundTrip \/ EncodeRequest

SpecCodec == CodecInit /\ [][CodecNext]_vars

-----------------------------------------------------------------------------
(* Row::get_column, and read_full on a transport that delivers its bytes   *)
(* in pieces.                                                              *)

\* a search that keeps the last column of that name
RECURSIVE position_last(_, _, _)
position_last(row_metadata, col_name, i) ==
    IF i > Len(row_metadata) THEN None
    ELSE IF position_last(row_metadata, col_name, i + 1) # None
    THEN position_last(row_metadata, col_name, i + 1)
    ELSE IF row_metadata[i].col_name = col_name THEN Some(i) ELSE None

\* .iter().position(|m| m.col_name == col_name), the search being at index i
RECURSIVE position(_, _, _)
position(row_metadata, col_name, i) ==
    IF i > Len(row_metadata) THEN None
    ELSE IF row_metadata[i].col_name = col_name THEN Some(i)
    ELSE position(row_metadata, col_name, i + 1)

\* .map(|i| self.cols[i].clone()): indexing past the end of cols aborts
cols_at(cols, pos) ==
    IF pos = None THEN None
    ELSE IF Val(pos) > Len(cols) THEN <<"panic", <<>>>> ELSE Some(cols[Val(pos)])

Row_get_column(row, col_name) ==
    cols_at(row.cols, position(row.metadata.row_metadata, col_name, 1))

MaxChunk == 3      \* bytes one read() of the transport delivers at most

\* the size of the piece the transport delivers to its read number k + 1
ChunkAt(chunks, k) == chunks[(k % Len(chunks)) + 1]

\* Read::read(&mut buf[nread..]): the number of bytes returned when `want` are asked
\* for, `left` remain before the end of the stream and the next piece has `chunk` bytes
read_some(want, left, chunk) ==
    IF left <= 0 THEN 0
    ELSE IF want <= left /\ want <= chunk THEN want
    ELSE IF left <= chunk THEN left ELSE chunk

\* a read_full result on the transport: k is the number of read() calls made so far
ChunkRead(st, v, p, k) == [st |-> st, v |-> v, p |-> p, k |-> k]

RECURSIVE read_full_loop(_, _, _, _, _, _)

\* match self.read(..)? { 0 => return Err(Error::UnexpectedEOF), n => nread += n }
read_full_step(b, p, n, chunks, k, buf, got) ==
    IF got = 0 THEN ChunkRead("UnexpectedEOF", <<>>, p, k + 1)
    ELSE read_full_loop(b, p + got, n, chunks, k + 1, buf \o SubSeq(b, p + 1, p + got))

\* a read_full that takes one short read for the end of the stream
read_full_one_read(b, p, n, chunks, k, buf) ==
    IF Len(buf) >= n THEN ChunkRead("ok", buf, p, k)
    ELSE IF read_some(n, Len(b) - p, ChunkAt(chunks, k)) < n
    THEN ChunkRead("UnexpectedEOF", <<>>, p + read_some(n, Len(b) - p, ChunkAt(chunks, k)), k + 1)
    ELSE ChunkRead("ok", SubSeq(b, p + 1, p + n), p + n, k + 1)

\* while nread < buf.len() { .. }, buf holding the nread bytes gathered so far
read_full_loop(b, p, n, chunks, k, buf) ==
    IF Len(buf) >= n THEN ChunkRead("ok", buf, p, k)
    ELSE read_full_step(b, p, n, chunks, k, buf,
                        read_some(n - Len(buf), Len(b) - p, ChunkAt(chunks, k)))

\* body_data read from the transport after the header h, and the body decoded from it
read_body_on(h, data) ==
    IF data.st # "ok" THEN FrameRead(data, FALSE, 0)
    ELSE Response([version |-> h[1], flags |-> h[2], stream |-> SBE(SubSeq(h, 3, 4)),
                   opcode |-> opcode(h[5])],
                  Decoded(read_cql_body(data.v, 0, opcode(h[5])), data.p))

\* the frame after header_data was read from the transport
read_header_on(b, chunks, header) ==
    IF header.st # "ok" THEN FrameRead(header, FALSE, 0)
    ELSE read_body_on(header.v,
                      read_full_loop(b, header.p, UBE(SubSeq(header.v, 6, 9)), chunks,
                                     header.k, <<>>))

\* read_cql_response on a transport that holds b and delivers it in the pieces `chunks`
read_cql_response_on(b, chunks) ==
    read_header_on(b, chunks, read_full_loop(b, 0, FrameHeaderLen, chunks, 0, <<>>))

-----------------------------------------------------------------------------
(* The decoder development: bytes are drawn as a server lays them out      *)
(* (whole frames, frames cut short, hostile frames, rows of cells,         *)
(* metadata), and the decoder is applied to them.                          *)

\* a non-null [bytes] cell and the null cell
Cell(bs) == BEu(Len(bs), 4) \o bs
NullCell == BEs(0 - 1, 4)

KsTable == SStr(Str_ks) \o SStr(<<116>>)

\* a column as the server describes it: its name and the [option] of its type
Col(name, option) == [name |-> name, option |-> option]
Opt(id) == BEu(id, 2)

\* metadata as the protocol lays it out: flags, column count, the global (keyspace,
\* table) pair when bit 0x0001 of flags is set, then per column its own pair when the
\* bit is clear, its name and its [option]
MetadataBytes(flags, columns) ==
    BEu(flags, 4) \o BEu(Len(columns), 4)
    \o (IF flags % 2 = 1 THEN KsTable ELSE <<>>)
    \o Flatten([i \in 1..Len(columns) |->
                  (IF flags % 2 = 1 THEN <<>> ELSE KsTable)
                  \o SStr(columns[i].name) \o columns[i].option])

\* the body of a Rows result: kind 2, metadata, row count, the rows' cells
RowsBody(flags, columns, rows) ==
    BEu(2, 4) \o MetadataBytes(flags, columns) \o BEu(Len(rows), 4) \o Flatten(rows)

Name_a == <<97>>
Name_b == <<98>>
Name_z == <<122>>

\* rows (a int, b varchar, a blob): two columns share the name a
DupRowsBody ==
    RowsBody(1, <<Col(Name_a, Opt(9)), Col(Name_b, Opt(13)), Col(Name_a, Opt(3))>>,
             << Cell(BEu(1, 4)) \o Cell(<<120>>) \o Cell(<<1, 2, 3>>),
                NullCell \o Cell(<<>>) \o Cell(<<4>>) >>)

\* rows (c1 boolean, c2 list<int>) whose columns carry their own (keyspace, table)
ListRowsBody ==
    RowsBody(0, <<Col(<<99, 49>>, Opt(4)), Col(<<99, 50>>, Opt(32) \o Opt(9))>>,
             << Cell(<<1>>) \o Cell(BEu(2, 4) \o Cell(BEu(5, 4)) \o NullCell) >>)

\* rows without columns, and columns without rows
NoColsRowsBody == RowsBody(1, <<>>, << <<>>, <<>> >>)
NoRowsBody == RowsBody(1, <<Col(Name_a, Opt(16)), Col(Name_b, Opt(0) \o SStr(ClassName))>>, <<>>)

\* rows (a counter, b int) and rows (a decimal, b int)
CounterRowsBody ==
    RowsBody(1, <<Col(Name_a, Opt(5)), Col(Name_b, Opt(9))>>,
             << Cell(BEu(5, 8)) \o Cell(BEu(7, 4)) >>)
DecimalRowsBody ==
    RowsBody(1, <<Col(Name_a, Opt(6)), Col(Name_b, Opt(9))>>,
             << Cell(BEu(2, 4) \o <<123>>) \o Cell(BEu(7, 4)) >>)

\* rows of one column a of type `option` and one cell
OneCellRowsBody(option, cell) == RowsBody(1, <<Col(Name_a, option)>>, <<cell>>)

\* the <<opcode, body>> of frames the decoder reads to the last byte of the body
ExactBodies ==
    { <<2, <<>>>>, <<3, SStr(Str_Auth)>>,
      <<0, BEu(8704, 4) \o SStr(Str_bad)>>,
      <<0, BEu(AlreadyExists, 4) \o SStr(Str_bad) \o SStr(Str_ks) \o SStr(<<116>>)>>,
      <<6, BEu(1, 2) \o SStr(Str_CQL_VERSION) \o BEu(1, 2) \o SStr(Str_3_0_0)>>,
      <<8, BEu(1, 4)>>, <<8, BEu(3, 4) \o SStr(Str_ks)>>,
      <<8, BEu(5, 4) \o SStr(Str_CREATED) \o SStr(Str_TABLE) \o SStr(Str_ks) \o SStr(<<116>>)>>,
      <<8, BEu(4, 4) \o SStr(<<1, 2>>) \o MetaGlobal(<<9, 13>>)>>,
      <<8, DupRowsBody>>, <<8, ListRowsBody>>, <<8, NoColsRowsBody>>, <<8, NoRowsBody>> }

\* opcode bytes of requests and of EVENT, and opcode bytes that are no opcode
OtherOpcodes == {1, 4, 5, 7, 9, 10, 11, 12, 13, 14, 128, 255}

\* the <<opcode, body>> of further frames: bodies with bytes to spare, bodies the code
\* does not decode, and bodies no well-behaved server sends
OtherBodies ==
    { <<8, BEu(1, 4) \o <<9, 9>>>>, <<8, BEu(9, 4)>>, <<12, SStr(Str_bad)>>,
      <<0, BEu(8704, 4) \o SStr(<<255>>)>>,
      <<8, CounterRowsBody>>, <<8, DecimalRowsBody>>,
      <<8, OneCellRowsBody(Opt(14), Cell(<<>>))>>,
      <<8, OneCellRowsBody(Opt(14), Cell(<<0, 0, 0, 0, 0, 0, 0, 0, 1>>))>>,
      <<8, OneCellRowsBody(Opt(14), Cell(Zeros(11)))>>,
      <<8, OneCellRowsBody(Opt(14), Cell(<<255, 127>>))>>,
      <<8, OneCellRowsBody(Opt(32) \o Opt(9), Cell(BEs(0 - 1, 4)))>>,
      <<8, OneCellRowsBody(Opt(3), BEs(0 - 2, 4))>>,
      <<8, OneCellRowsBody(Opt(48), Cell(<<>>))>>,
      <<8, OneCellRowsBody(Opt(36), Cell(<<1>>))>> }
    \cup {<<op, body>> : op \in OtherOpcodes,
                         body \in {<<>>, BEu(8704, 4) \o SStr(Str_bad), BEu(1, 4)}}

\* a frame input: its bytes, how it was cut short, and the body it was laid out from
FrameInput(bytes, cut, body) == <<"frame", [bytes |-> bytes, cut |-> cut, body |-> body]>>

\* whole frames; frames the transport ends in the middle of (in the header, in the
\* body); frames whose body ends early while the length field counts what is there
FrameInputs ==
    {FrameInput(ServerFrame(0, e[1], e[2]), "none", e[2]) : e \in ExactBodies \cup OtherBodies}
    \cup UNION {{FrameInput(SubSeq(ServerFrame(0, e[1], e[2]), 1, k),
                            IF k < FrameHeaderLen THEN "header" ELSE "body", e[2])
                    : k \in 0..(FrameHeaderLen + Len(e[2]) - 1)} : e \in ExactBodies}
    \cup UNION {{FrameInput(ServerFrame(0, e[1], SubSeq(e[2], 1, k)), "inner", e[2])
                    : k \in 0..(Len(e[2]) - 1)} : e \in ExactBodies}

\* a row of cells: the column types, the values the cells stand for, the cells' bytes
CellsInput(tys, vals, bytes) == <<"cells", [tys |-> tys, vals |-> vals, bytes |-> bytes]>>

Int7 == <<"CqlInt", 7>>
TextAb == <<"CqlText", <<97, 98>>>>

\* a Decimal cell: [int] scale, then the unscaled varint in the remaining bytes
DecimalCell(scale, unscaled) == Cell(BEs(scale, 4) \o unscaled)
DecimalOf(scale, unscaled) == <<"CqlDecimal", <<scale, parse_varint(unscaled).v>>>>

\* a Tuple cell: the cells of its elements, one per descriptor
TupleCell(cells) == Cell(Flatten(cells))

VarintSamples == {<<123>>, <<255, 127>>, <<1, 0, 0>>, <<0, 0, 0, 0, 0, 0, 1, 0>>}

CellsInputs ==
    {CellsInput(<<Single("Decimal"), Single("Int")>>, <<DecimalOf(sc, u), Int7>>,
                DecimalCell(sc, u) \o Cell(BEu(7, 4))) : sc \in {0 - 3, 0, 2}, u \in VarintSamples}
    \cup {CellsInput(<<Single("Decimal")>>, <<DecimalOf(2, u)>>, DecimalCell(2, u))
             : u \in VarintSamples}
    \cup {CellsInput(<<Single("Decimal"), Single("Int")>>, <<Null, Int7>>,
                     NullCell \o Cell(BEu(7, 4)))}
    \cup {CellsInput(<<Single("Counter"), Single("Int")>>, << <<"CqlCounter", n>>, Int7 >>,
                     Cell(BEs(n, 8)) \o Cell(BEu(7, 4))) : n \in {0, 5, 65536}}
    \cup {CellsInput(<<Single("Bigint"), Single("Int")>>, << <<"CqlBigint", n>>, Int7 >>,
                     Cell(BEs(n, 8)) \o Cell(BEu(7, 4))) : n \in {0 - 2, 0, 5, 65536}}
    \cup {CellsInput(<<Single("Timestamp"), Single("Int")>>, << <<"CqlTimestamp", n>>, Int7 >>,
                     Cell(BEs(n, 8)) \o Cell(BEu(7, 4))) : n \in {0 - 2, 0, 5, 65536}}
    \cup {CellsInput(<<Single("Counter")>>, <<Null>>, NullCell)}
    \cup {CellsInput(<< <<"Tuple", <<Single("Int"), Single("Text")>>>>, Single("Int") >>,
                     << <<"CqlTuple", << <<Int7, TextAb>> >> >>, <<"CqlInt", n>> >>,
                     TupleCell(<<Cell(BEu(7, 4)), Cell(<<97, 98>>)>>) \o Cell(BEu(n, 4)))
             : n \in {0, 1, 7}}
    \cup {CellsInput(<< <<"Tuple", <<Single("Int"), Single("Text")>>>> >>,
                     << <<"CqlTuple", << <<Null, TextAb>> >> >> >>,
                     TupleCell(<<NullCell, Cell(<<97, 98>>)>>)),
          CellsInput(<< <<"Tuple", <<Single("Boolean")>>>>, Single("Int") >>,
                     << <<"CqlTuple", << << <<"CqlBoolean", TRUE>> >> >> >>, Int7 >>,
                     TupleCell(<<Cell(<<1>>)>>) \o Cell(BEu(7, 4))),
          CellsInput(<< <<"Tuple", <<Single("Int"), Single("Int"), Single("Int")>>>> >>,
                     << <<"CqlTuple", << <<Int7, Int7, Int7>> >> >> >>,
                     TupleCell(<<Cell(BEu(7, 4)), Cell(BEu(7, 4)), Cell(BEu(7, 4))>>)),
          CellsInput(<< <<"Tuple", <<Single("Int")>>>>, Single("Int") >>, <<Null, Int7>>,
                     NullCell \o Cell(BEu(7, 4)))}

\* a cell laid out from a length prefix and the bytes that follow it
RawCell(prefix, content) == BEs(prefix, 4) \o content

\* stands in vals for a cell that has no value
NoValue == <<"none", <<>>>>

FixedTypes ==
    {"Int", "Float", "Bigint", "Timestamp", "Double", "Boolean", "UUID", "TimeUUID", "Inet"}
CellLengths == {0 - 2, 0, 1, 2, 3, 4, 5, 8, 9, 16, 17}

\* one cell of a fixed-width type under each length prefix, with that many bytes
FixedCellsInputs ==
    {CellsInput(<<Single(ty)>>, <<NoValue>>, RawCell(l, [i \in 1..l |-> 1]))
        : ty \in FixedTypes, l \in CellLengths}

\* cells of types the decoder has no arm for: unknown ids, and user-defined types
UnknownCellsInputs ==
    {CellsInput(<<Single(ty), Single("Int")>>, << <<"CqlUnknown", <<>>>>, Int7 >>,
                Cell(content) \o Cell(BEu(7, 4)))
        : ty \in {"Unknown", "UDT"}, content \in {<<>>, <<1, 2, 3>>, BEu(4, 4) \o BEu(9, 4)}}

NegativeDescrs ==
    { Single("Int"), Single("Blob"), Single("Text"), Single("VarInt"), Single("Boolean"),
      Single("Unknown"), <<"Custom", ClassName>>, <<"List", Single("Int")>>,
      <<"Set", Single("Text")>>, <<"Map", <<Single("Int"), Single("Int")>>>>,
      <<"Tuple", <<Single("Int")>>>> }

\* cells with a negative length prefix, and collection cells with a negative element count
NegativeCellsInputs ==
    {CellsInput(<<d, Single("Int")>>, <<Null, Int7>>, NullCell \o Cell(BEu(7, 4)))
        : d \in NegativeDescrs}
    \cup {CellsInput(<<d>>, <<NoValue>>, RawCell(l, content))
             : d \in NegativeDescrs, l \in {0 - 2, 0 - 5}, content \in {<<>>, Zeros(4)}}
    \cup {CellsInput(<<d>>, <<NoValue>>, RawCell(4, BEs(n, 4)))
             : d \in {e \in NegativeDescrs : Tag(e) \notin {"Single", "Custom"}},
               n \in {0 - 1, 0 - 3}}

\* varint cells of every length from 0 to 12
VarintCellsInputs ==
    {CellsInput(<<Single("VarInt")>>, << <<"CqlVarInt", 5>> >>, Cell(Zeros(l - 1) \o <<5>>))
        : l \in 1..8}
    \cup {CellsInput(<<Single("VarInt")>>, << <<"CqlVarInt", 0 - 5>> >>,
                     Cell(Ones(l - 1) \o <<251>>)) : l \in 1..8}
    \cup {CellsInput(<<Single("VarInt")>>, <<NoValue>>, Cell(Zeros(l))) : l \in {0, 9, 10, 11, 12}}

\* collection cells as the encoder writes them, and collection cells whose length
\* prefix is not the number of bytes their elements occupy
CollectionCellsInputs ==
    {CellsInput(<<d, Single("Int")>>, <<RepSeq(d)[2], Int7>>,
                Value_serialize(RepSeq(d)[2]).out \o Cell(BEu(7, 4))) : d \in CollectionDescrs}
    \cup {CellsInput(<< <<"List", Single("Int")>>, Single("Int") >>,
                     << <<"CqlList", <<>>>>, Int7 >>,
                     RawCell(l, BEu(0, 4)) \o Cell(BEu(7, 4))) : l \in {0, 4, 8, 100}}
    \cup {CellsInput(<< <<"Custom", ClassName>>, Single("Int") >>,
                     << <<"CqlCustom", <<ClassName, bs>>>>, Int7 >>,
                     Cell(bs) \o Cell(BEu(7, 4))) : bs \in {<<>>, <<1, 2>>}}
    \cup {CellsInput(<< <<"Set", Single("Int")>>, Single("Int") >>,
                     << <<"CqlSet", <<Int7>>>>, Int7 >>,
                     RawCell(l, BEu(1, 4) \o Cell(BEu(7, 4))) \o Cell(BEu(7, 4))) : l \in {4, 12}}

MoreCellsInputs ==
    FixedCellsInputs \cup UnknownCellsInputs \cup NegativeCellsInputs
    \cup VarintCellsInputs \cup CollectionCellsInputs

\* a metadata input: its flags, its columns and its bytes
MetadataInput(flags, columns) ==
    <<"metadata", [flags |-> flags, columns |-> columns, bytes |-> MetadataBytes(flags, columns)]>>

MetadataFlags == {0, 1, 2, 3}
MetadataColumns ==
    { <<>>, <<Col(Name_a, Opt(9))>>, <<Col(Name_a, Opt(9)), Col(Name_b, Opt(13))>>,
      <<Col(Name_a, Opt(32) \o Opt(9)), Col(Name_b, Opt(1)), Col(Name_z, Opt(4))>> }

MetadataInputs == {MetadataInput(f, cs) : f \in MetadataFlags, cs \in MetadataColumns}

\* the pieces a transport delivers its bytes in: the sizes of its reads, taken in turn
Chunkings == SeqsUpTo(1..MaxChunk, 3) \ {<<>>}

StreamBytes == <<10, 20, 30, 40, 50>>

\* read_full of n bytes at position p of a stream
ReadFullInputs ==
    {<<"read_full", [b |-> SubSeq(StreamBytes, 1, l), p |-> p, n |-> n, chunks |-> c]>>
        : l \in 1..Len(StreamBytes), p \in 0..1, n \in 0..4, c \in Chunkings}
    \cup {<<"read_full", [b |-> <<>>, p |-> 0, n |-> n, chunks |-> c]>>
              : n \in 0..4, c \in Chunkings}

ChunkedFrames ==
    { ServerFrame(0, 8, BEu(1, 4)), ServerFrame(0, 2, <<>>), RowsFrame(0),
      ServerFrame(0, 8, DupRowsBody), SubSeq(RowsFrame(0), 1, 20), SubSeq(RowsFrame(0), 1, 7),
      ServerFrame(0, 3, <<0, 5, 97>>), ServerFrame(0, 8, BEu(1, 4)) \o ServerFrame(0, 2, <<>>) }

ChunkedFrameInputs ==
    {<<"chunked_frame", [bytes |-> f, chunks |-> c]>> : f \in ChunkedFrames, c \in Chunkings}

GetColumnInputs ==
    {<<"get_column", [bytes |-> body, name |-> name]>>
        : body \in {DupRowsBody, ListRowsBody, NoColsRowsBody, NoRowsBody},
          name \in {Name_a, Name_b, Name_z, <<99, 50>>, <<>>}}

\* a slice handed to parse_varint, and the number it was encoded from, if any
VarintInput(v, of) == <<"varint", [v |-> v, of |-> of]>>

VarintBytes == {0, 1, 127, 128, 129, 255}
VarintNumbers ==
    {0, 1, 0 - 1, 127, 128, 129, 0 - 128, 0 - 129, 65535, 0 - 65536, 1073741823, 0 - 1073741823}

ShortSlices ==
    {<<a>> : a \in VarintBytes} \cup {<<a, c>> : a \in VarintBytes, c \in VarintBytes}

\* slices of one to three bytes; slices of up to eight bytes with leading 0x00 or
\* 0xFF bytes; the eight bytes the encoder writes for a CqlVarInt; slices of no
\* bytes and of nine
VarintInputs ==
    {VarintInput(v, None) : v \in ShortSlices}
    \cup {VarintInput(<<a>> \o v, None) : a \in VarintBytes, v \in ShortSlices}
    \cup UNION {{VarintInput(Zeros(k) \o v, None) : k \in 1..(8 - Len(v))} : v \in ShortSlices}
    \cup UNION {{VarintInput(Ones(k) \o v, None) : k \in 1..(8 - Len(v))} : v \in ShortSlices}
    \cup {VarintInput(Value_serialize_body(<<"CqlVarInt", n>>).out, Some(n)) : n \in VarintNumbers}
    \cup {VarintInput(<<>>, None), VarintInput(Zeros(9), None)}

Str_FUNCTION == <<70, 85, 78, 67, 84, 73, 79, 78>>
Str_table == <<116, 97, 98, 108, 101>>

\* a RESULT body of a schema change: its kind, its three strings, the strings that
\* follow them, and its bytes
ResultInput(kind, change_type, target, keyspace, names) ==
    <<"result", [kind |-> kind, change_type |-> change_type, target |-> target,
                 keyspace |-> keyspace, names |-> names,
                 bytes |-> BEu(kind, 4) \o SStr(change_type) \o SStr(target) \o SStr(keyspace)
                           \o (IF names = <<>> THEN <<>> ELSE SStr(names[1]))]>>

ResultInputs ==
    {ResultInput(kind, change_type, target, Str_ks, names)
        : kind \in {0, 5, 6, 9, 65541},
          change_type \in {Str_CREATED, <<>>},
          target \in {Str_KEYSPACE, Str_TABLE, Str_TYPE, Str_FUNCTION, Str_table, <<>>},
          names \in {<<>>, << <<116>> >>, << <<>> >>}}

DecodeInputs ==
    FrameInputs \cup CellsInputs \cup MoreCellsInputs \cup MetadataInputs \cup ReadFullInputs
    \cup ChunkedFrameInputs \cup GetColumnInputs \cup VarintInputs \cup ResultInputs

DecodeInit ==
    /\ cop = "init"
    /\ cin \in DecodeInputs
    /\ cout = <<>>
    /\ ClientIdle

\* read_cql_response on the bytes of a frame input
DecodeFrame ==
    /\ cop = "init" /\ Tag(cin) = "frame"
    /\ cop' = "decode_frame"
    /\ cout' = read_cql_response(Val(cin).bytes, 0)
    /\ UNCHANGED <<cin, clientVars>>

\* read_cql_col on the first cell, and the loop of read_cql_rows over one row of cells
DecodeCells ==
    /\ cop = "init" /\ Tag(cin) = "cells"
    /\ cop' = "decode_cells"
    /\ cout' = [first |-> read_cql_col(Val(cin).bytes, 0, Val(cin).tys[1]),
                row |-> RowLoop(Val(cin).bytes, 0, Val(cin).tys, <<>>)]
    /\ UNCHANGED <<cin, clientVars>>

DecodeMetadata ==
    /\ cop = "init" /\ Tag(cin) = "metadata"
    /\ cop' = "decode_metadata"
    /\ cout' = read_cql_metadata(Val(cin).bytes, 0)
    /\ UNCHANGED <<cin, clientVars>>

\* read_full on a transport that delivers its bytes in pieces
ReadFull ==
    /\ cop = "init" /\ Tag(cin) = "read_full"
    /\ cop' = "read_full"
    /\ cout' = read_full_loop(Val(cin).b, Val(cin).p, Val(cin).n, Val(cin).chunks, 0, <<>>)
    /\ UNCHANGED <<cin, clientVars>>

\* read_cql_response on a transport that delivers its bytes in pieces
ReadChunkedFrame ==
    /\ cop = "init" /\ Tag(cin) = "chunked_frame"
    /\ cop' = "read_chunked_frame"
    /\ cout' = read_cql_response_on(Val(cin).bytes, Val(cin).chunks)
    /\ UNCHANGED <<cin, clientVars>>

\* parse_varint on a slice
ParseVarint ==
    /\ cop = "init" /\ Tag(cin) = "varint"
    /\ cop' = "parse_varint"
    /\ cout' = parse_varint(Val(cin).v)
    /\ UNCHANGED <<cin, clientVars>>

\* read_cql_result on the bytes of a RESULT body
DecodeResult ==
    /\ cop = "init" /\ Tag(cin) = "result"
    /\ cop' = "decode_result"
    /\ cout' = read_cql_result(Val(cin).bytes, 0)
    /\ UNCHANGED <<cin, clientVars>>

\* Row::get_column on every row of a decoded Rows result r
GetAll(r, name) ==
    [result |-> r,
     got |-> IF r.st # "ok" \/ Tag(r.v) # "Rows" THEN <<>>
             ELSE [i \in 1..Len(Val(r.v).rows) |-> Row_get_column(Val(r.v).rows[i], name)]]

GetColumn ==
    /\ cop = "init" /\ Tag(cin) = "get_column"
    /\ cop' = "get_column"
    /\ cout' = GetAll(read_cql_result(Val(cin).bytes, 0), Val(cin).name)
    /\ UNCHANGED <<cin, clientVars>>

DecodeNext ==
    \/ DecodeFrame \/ DecodeCells \/ DecodeMetadata \/ ReadFull \/ ReadChunkedFrame \/ GetColumn
    \/ ParseVarint \/ DecodeResult

SpecDecode == DecodeInit /\ [][DecodeNext]_vars

-----------------------------------------------------------------------------
(* The Client. Each action is one call of the public API, from the         *)
(* encoding of its request to the value it returns.                        *)

MaxCalls == 2      \* options/query/prepare/execute calls made on one Client

\* Write::write_all on the TcpStream: all of data is accepted, or the write fails with
\* an io::Error after a part of it (here: nothing, or all but the last byte)
WriteFaults == {"no", "start", "end"}
\* a write that reports success whatever part of data the transport accepted
write_all_unchecked(data, wfail) ==
    [st |-> "ok",
     sent |-> IF wfail = "no" THEN data
              ELSE SubSeq(data, 1, IF wfail = "start" THEN 0 ELSE Len(data) - 1)]

write_all(data, wfail) ==
    IF wfail = "no" THEN [st |-> "ok", sent |-> data]
    ELSE [st |-> "Io",
          sent |-> SubSeq(data, 1, IF wfail = "start" THEN 0 ELSE Len(data) - 1)]

\* what a call did: the vector to_vec built (req), the bytes the transport accepted
\* (sent), the transport operations in order (log), the response read (rd), and the
\* value returned (ret)
Outcome(msg, accepted, log, read, ret) ==
    [req |-> msg, sent |-> accepted, log |-> log, rd |-> read, ret |-> ret]

\* self.socket.read_cql_response(), r being its result on the bytes avail
ReadOutcome(data, accepted, avail, r) ==
    Outcome(WOk(data), accepted, << <<"W", TRUE>>, <<"R", r.framed>> >>,
            [did |-> TRUE, avail |-> avail, st |-> r.st, v |-> r.v, p |-> r.p,
             framed |-> r.framed, used |-> r.used],
            Ret(r.st, r.v))

\* self.socket.write_all(data)?, w being its result
WriteOutcome(data, avail, w) ==
    IF w.st # "ok"
    THEN Outcome(WOk(data), w.sent, << <<"W", FALSE>> >>, NoRead, Ret("Io", <<>>))
    ELSE ReadOutcome(data, w.sent, avail, read_cql_response(avail, 0))

\* fn send: avail is what the stream will deliver to reads before it blocks or ends
Client_send(data, avail, wfail) == WriteOutcome(data, avail, write_all(data, wfail))

\* let msg = <request>.to_vec()?; self.send(&msg)
VecOutcome(msg, avail, wfail) ==
    IF msg.st # "ok" THEN Outcome(msg, <<>>, <<>>, NoRead, Ret(msg.st, <<>>))
    ELSE Client_send(msg.out, avail, wfail)

Client_call(r, avail, wfail) == VecOutcome(to_vec(r), avail, wfail)

Client_options(avail, wfail) == Client_call(options, avail, wfail)

Client_query(query_str, con, values, avail, wfail) ==
    Client_call(query(0, query_str, con, values), avail, wfail)

Client_execute(id, con, values, avail, wfail) ==
    Client_call(execute(0, id, con, values), avail, wfail)

\* the match on resp.body in Client::prepare
prepare_match(body) ==
    IF Tag(body) = "Result" /\ Tag(Val(body)) = "Prepared"
    THEN Ret("ok", Val(Val(body))[1])
    ELSE Ret("Protocol", <<>>)

\* `let resp = <o>?; match resp.body { .. }`
Matched(o, M(_)) == [o EXCEPT !.ret = IF o.ret.st # "ok" THEN o.ret ELSE M(o.ret.v.body)]

Client_prepare(query_str, avail, wfail) ==
    Matched(Client_call(prepare(0, query_str), avail, wfail), prepare_match)

\* a match that takes AUTHENTICATE for the end of the handshake
new_match_accepting_auth(body) ==
    IF Tag(body) \in {"Ready", "Auth"} THEN Ret("ok", "Client") ELSE Ret("Protocol", <<>>)

\* the match on response.body in Client::new
new_match(body) ==
    IF Tag(body) = "Ready" THEN Ret("ok", "Client")
    ELSE IF Tag(body) = "Auth" THEN Ret("Unimplemented", <<>>)
    ELSE Ret("Protocol", <<>>)

\* Client::new; connected is the outcome of TcpStream::connect
Client_new(connected, avail, wfail) ==
    IF ~connected THEN Outcome(WOk(<<>>), <<>>, <<>>, NoRead, Ret("Io", <<>>))
    ELSE Matched(Client_call(startup, avail, wfail), new_match)

\* What the server may do in answer to a call with outcome o: nothing when no complete
\* request reached it or when it has closed; otherwise one of its answers, and the
\* call returns only if the read was served a whole frame or the stream has ended.
Served(o, ans) ==
    IF ~o.rd.did \/ eof THEN ans = NoAnswer
    ELSE ans \in ServerAnswers /\ (o.rd.framed \/ ans.closes)

\* the state after a call with arguments a, outcome o and server answer ans
Returned(a, o, ans) ==
    /\ Served(o, ans)
    /\ call' = a
    /\ req' = o.req /\ sent' = o.sent /\ rd' = o.rd /\ res' = o.ret /\ srv' = ans
    /\ iolog' = iolog \o o.log
    /\ inb' = IF o.rd.did THEN SubSeq(o.rd.avail, o.rd.p + 1, Len(o.rd.avail)) ELSE inb
    /\ eof' = (eof \/ ans.closes)
    /\ UNCHANGED <<cop, cin, cout>>

\* Client::new returned: a Client that owns the socket, or an error and the socket dropped
Connected(o, ans, connected) ==
    /\ Returned([NoCall EXCEPT !.name = "connect"], o, ans)
    /\ client' = IF o.ret.st = "ok" THEN "ready"
                 ELSE IF o.ret.st = "panic" THEN "aborted" ELSE "failed"
    /\ socket' = IF o.ret.st = "ok" THEN "open"
                 ELSE IF connected THEN "released" ELSE "unopened"
    /\ UNCHANGED <<held, ncalls>>

\* a call on an existing Client returned: a panic unwinds the caller and drops the Client;
\* the caller keeps the id that prepare returned
Called(a, o, ans) ==
    /\ Returned(a, o, ans)
    /\ ncalls' = ncalls + 1
    /\ client' = IF o.ret.st = "panic" THEN "aborted" ELSE client
    /\ socket' = IF o.ret.st = "panic" THEN "released" ELSE socket
    /\ held' = IF a.name = "prepare" /\ o.ret.st = "ok" THEN o.ret.v ELSE held

ClientQueries == {<<113>>}
ClientParams == {<<>>, << <<"CqlInt", 7>> >>, << Counter5 >>, << Decimal314 >>}
OtherId == <<9, 9>>

Init ==
    /\ ClientIdle
    /\ cop = "idle" /\ cin = <<>> /\ cout = <<>>

Connect ==
    /\ client = "none"
    /\ \E connected \in BOOLEAN, wfail \in WriteFaults, ans \in ServerAnswers \cup {NoAnswer} :
        /\ ~connected => wfail = "no"
        /\ Connected(Client_new(connected, inb \o ans.bytes, wfail), ans, connected)

Options ==
    /\ client = "ready" /\ ncalls < MaxCalls
    /\ \E wfail \in WriteFaults, ans \in ServerAnswers \cup {NoAnswer} :
        Called([NoCall EXCEPT !.name = "options"],
               Client_options(inb \o ans.bytes, wfail), ans)

Query ==
    /\ client = "ready" /\ ncalls < MaxCalls
    /\ \E q \in ClientQueries, values \in ClientParams, wfail \in WriteFaults,
          ans \in ServerAnswers \cup {NoAnswer} :
        Called([NoCall EXCEPT !.name = "query", !.q = q, !.params = values],
               Client_query(q, "One", values, inb \o ans.bytes, wfail), ans)

Prepare ==
    /\ client = "ready" /\ ncalls < MaxCalls
    /\ \E q \in ClientQueries, wfail \in WriteFaults, ans \in ServerAnswers \cup {NoAnswer} :
        Called([NoCall EXCEPT !.name = "prepare", !.q = q],
               Client_prepare(q, inb \o ans.bytes, wfail), ans)

Execute ==
    /\ client = "ready" /\ ncalls < MaxCalls
    /\ \E id \in {held, OtherId}, values \in ClientParams, wfail \in WriteFaults,
          ans \in ServerAnswers \cup {NoAnswer} :
        Called([NoCall EXCEPT !.name = "execute", !.id = id, !.con = "Quorum",
                                        !.params = values],
               Client_execute(id, "Quorum", values, inb \o ans.bytes, wfail), ans)

Next == Connect \/ Options \/ Query \/ Prepare \/ Execute

Spec == Init /\ [][Next]_vars

-----------------------------------------------------------------------------
(* Properties of the Client.                                               *)

\* the last call was made on an existing Client
IsCall == call.name \in {"options", "query", "prepare", "execute"}

\* the last call read a response, and what the server sent for it is what was read
ReadAnswer == rd.did /\ rd.avail = srv.bytes

\* bs is one complete frame: a 9-byte header and as many body bytes as its length field says
OneFrame(bs) ==
    Len(bs) >= FrameHeaderLen /\ Len(bs) = FrameHeaderLen + UBE(SubSeq(bs, 6, 9))

IsPrefix(s, t) == Len(s) <= Len(t) /\ s = SubSeq(t, 1, Len(s))

(* C1: Client::new returns a Client if and only if the first frame read    *)
(* after STARTUP decodes to READY; AUTHENTICATE gives Unimplemented, any   *)
(* other decoded body gives Protocol; without READY no Client is returned  *)
(* and the socket is released; a Client always owns an open socket.        *)
C1_ConnectOutcomes ==
    /\ call.name = "connect" =>
        /\ (client = "ready") <=> (rd.did /\ rd.st = "ok" /\ Tag(rd.v.body) = "Ready")
        /\ (client = "ready") <=> (res.st = "ok")
        /\ (rd.did /\ rd.st = "ok" /\ Tag(rd.v.body) = "Auth") => res.st = "Unimplemented"
        /\ (rd.did /\ rd.st = "ok" /\ Tag(rd.v.body) \in {"Error", "Supported", "Result"})
              => res.st = "Protocol"
        /\ client # "ready" => socket # "open"
    /\ client = "ready" => socket = "open"
    /\ client \in {"none", "failed", "aborted"} => socket # "open"

C1_Witness ==
    /\ call.name = "connect" /\ srv.kind = "auth" /\ ReadAnswer
    /\ rd.st = "ok" /\ rd.v.body = <<"Auth", Str_Auth>>
    /\ res.st = "Unimplemented" /\ client = "failed" /\ socket = "released"

C3_StreamMismatchIsProtocolError ==
    (IsCall /\ rd.did /\ rd.framed /\ SubSeq(rd.avail, 3, 4) # SubSeq(sent, 3, 4))
        => res.st = "Protocol"

(* C4: a response that query or execute returns successfully has opcode    *)
(* RESULT or ERROR, and one that options returns successfully has opcode   *)
(* SUPPORTED or ERROR.                                                     *)
C4_ReturnedOpcodeFitsRequest ==
    /\ (call.name \in {"query", "execute"} /\ res.st = "ok")
          => res.v.header.opcode \in {"Result", "Error"}
    /\ (call.name = "options" /\ res.st = "ok")
          => res.v.header.opcode \in {"Supported", "Error"}

(* C5: when the server answers query, execute or options with a            *)
(* well-formed ERROR frame, the call returns Ok with the body              *)
(* Error(code, message) of that frame, and none of the Error kinds.        *)
C5_ErrorFrameIsOkResponse ==
    (call.name \in {"query", "execute", "options"} /\ srv.kind = "error" /\ ReadAnswer)
        => /\ res.st = "ok"
           /\ res.v.body = <<"Error", <<srv.code, srv.msg>>>>
           /\ res.v.header.opcode = "Error"

C5_Witness ==
    /\ call.name = "execute" /\ srv.kind = "error" /\ srv.code = AlreadyExists /\ ReadAnswer
    /\ res.st = "ok" /\ res.v.body = <<"Error", <<AlreadyExists, Str_bad>>>>
    /\ rd.used = rd.p - FrameHeaderLen

(* C6: when the server answers prepare with a well-formed ERROR frame,     *)
(* prepare does not return one of the five client Error kinds.             *)
C6_PrepareKeepsServerError ==
    (call.name = "prepare" /\ srv.kind = "error" /\ ReadAnswer) => res.st \notin ErrorKinds

(* C7: for every Prepared result, prepare returns exactly the bytes of its *)
(* id, and execute with an id writes a body that is the 2-byte big-endian  *)
(* length of the id, the id, and then the QueryParameters.                 *)
C7_PreparedIdRoundTrip ==
    /\ (call.name = "prepare" /\ srv.kind = "prepared" /\ ReadAnswer)
          => res.st = "ok" /\ res.v = srv.id /\ held = srv.id
    /\ (call.name = "execute" /\ req.st = "ok") =>
          LET body == SubSeq(req.out, FrameHeaderLen + 1, Len(req.out))
              L == Len(call.id)
          IN  /\ SubSeq(body, 1, 2) = BEu(L, 2)
              /\ SubSeq(body, 3, 2 + L) = call.id
              /\ SubSeq(body, 3 + L, Len(body))
                   = QueryParams_serialize([con |-> call.con, params |-> call.params]).out

(* C8: the frame of every request startup, options, query(q, c, []),       *)
(* prepare(q), execute(id, c, []) is a 9-byte header followed by the body, *)
(* the 4-byte big-endian length in header bytes 5..8 is the number of body *)
(* bytes that follow, and len_() of the body is the number of bytes its    *)
(* serialize writes. (Checked for every request that encodes.)             *)
C8_LengthFieldIsBodyLength ==
    cop = "encode_request" =>
        LET a == Val(cin) out == cout.vec.out IN
        /\ a.params = <<>> => cout.vec.st = "ok"
        /\ cout.vec.st = "ok" =>
            /\ Len(out) >= FrameHeaderLen
            /\ UBE(SubSeq(out, 6, 9)) = Len(out) - FrameHeaderLen
            /\ SubSeq(out, FrameHeaderLen + 1, Len(out)) = cout.body.out
            /\ cout.body_len = Len(cout.body.out)

C8_Witness ==
    /\ cop = "encode_request"
    /\ Val(cin).name = "execute" /\ Val(cin).id = LongId /\ Val(cin).params = <<>>
    /\ cout.vec.st = "ok"
    /\ SubSeq(cout.vec.out, 6, 9) = <<0, 0, 1, 9>>
    /\ Len(cout.vec.out) = 9 + 265

(* C9: whenever the transport supplies a 9-byte header and the body bytes  *)
(* its length field announces, read_cql_response consumes exactly          *)
(* 9 + length bytes, whether the body decoder uses all of the body, less,  *)
(* or fails; the decoder reads nothing beyond the body, and what follows   *)
(* the frame is left for the next read.                                    *)
C9_FrameConsumedExactly ==
    (rd.did /\ Len(rd.avail) >= FrameHeaderLen
            /\ Len(rd.avail) >= FrameHeaderLen + UBE(SubSeq(rd.avail, 6, 9)))
        => /\ rd.framed
           /\ rd.p = FrameHeaderLen + UBE(SubSeq(rd.avail, 6, 9))
           /\ rd.used <= UBE(SubSeq(rd.avail, 6, 9))
           /\ inb = SubSeq(rd.avail, rd.p + 1, Len(rd.avail))
           /\ (rd.st = "ok" /\ srv.kind = "void_then_ready" /\ ReadAnswer) => inb = ReadyFrame(0)

C9_Witness ==
    /\ IsCall /\ srv.kind = "void_trailing" /\ ReadAnswer
    /\ rd.st = "ok" /\ rd.v.body = <<"Result", <<"Void", <<>>>>>>
    /\ rd.used = 4 /\ rd.p = 15 /\ inb = <<>>

(* C10: for every value V of a type both the encoder and the decoder       *)
(* support, read_cql_col under V's descriptor on the bytes that            *)
(* Value::serialize(V) wrote yields V again and consumes all of them.      *)
C10_ValueRoundTrip ==
    cop = "round_trip" =>
        /\ cout.enc.st = "ok"
        /\ cout.dec.st = "ok"
        /\ cout.dec.v = Val(cin)[2]
        /\ cout.dec.p = Len(cout.enc.out)

C10_Witness ==
    /\ cop = "round_trip"
    /\ Val(cin)[1] = DeepDescr
    /\ Val(cin)[2] = RepSeq(DeepDescr)[2]
    /\ cout.dec.st = "ok"
    /\ cout.dec.v = RepSeq(DeepDescr)[2]
    /\ cout.dec.p = Len(cout.enc.out) /\ cout.dec.p > 40

-----------------------------------------------------------------------------
(* Properties of the decoder.                                              *)

\* the Value variant a non-null cell of a Single column type decodes to
VariantOf(ty) ==
    CASE ty = "Ascii" -> "CqlAscii" [] ty = "Bigint" -> "CqlBigint" [] ty = "Blob" -> "CqlBlob"
      [] ty = "Boolean" -> "CqlBoolean" [] ty = "Counter" -> "CqlCounter"
      [] ty = "Decimal" -> "CqlDecimal" [] ty = "Double" -> "CqlDouble"
      [] ty = "Float" -> "CqlFloat" [] ty = "Int" -> "CqlInt" [] ty = "Text" -> "CqlText"
      [] ty = "Timestamp" -> "CqlTimestamp" [] ty = "UUID" -> "CqlUUID"
      [] ty = "VarChar" -> "CqlVarChar" [] ty = "VarInt" -> "CqlVarInt"
      [] ty = "TimeUUID" -> "CqlTimeUUID" [] ty = "Inet" -> "CqlInet"
      [] OTHER -> "CqlUnknown"

\* v is a value of the type descriptor d
RECURSIVE ValueFits(_, _)
ValueFits(v, d) ==
    \/ Tag(v) = "CqlNull"
    \/ /\ Tag(d) = "Single" /\ Tag(v) = VariantOf(Val(d))
    \/ /\ Tag(d) = "Custom" /\ Tag(v) = "CqlCustom" /\ Val(v)[1] = Val(d)
    \/ /\ Tag(d) = "List" /\ Tag(v) = "CqlList"
       /\ \A i \in 1..Len(Val(v)) : ValueFits(Val(v)[i], Val(d))
    \/ /\ Tag(d) = "Set" /\ Tag(v) = "CqlSet"
       /\ \A i \in 1..Len(Val(v)) : ValueFits(Val(v)[i], Val(d))
    \/ /\ Tag(d) = "Map" /\ Tag(v) = "CqlMap"
       /\ \A i \in 1..Len(Val(v)) :
            ValueFits(Val(v)[i][1], Val(d)[1]) /\ ValueFits(Val(v)[i][2], Val(d)[2])
    \/ /\ Tag(d) = "Tuple" /\ Tag(v) = "CqlTuple"
       /\ \A i \in 1..Len(Val(v)) :
            /\ Len(Val(v)[i]) = Len(Val(d))
            /\ \A j \in 1..Len(Val(d)) : ValueFits(Val(v)[i][j], Val(d)[j])

\* a frame was decoded to a Rows result
DecodedRows ==
    /\ cop = "decode_frame" /\ cout.st = "ok"
    /\ Tag(cout.v.body) = "Result" /\ Tag(Val(cout.v.body)) = "Rows"

\* the rows of a decoded Rows result fit its metadata
RowsFit(R) ==
    /\ R.metadata.column_count = Len(R.metadata.row_metadata)
    /\ \A i \in 1..Len(R.rows) :
        /\ Len(R.rows[i].cols) = R.metadata.column_count
        /\ R.rows[i].metadata = R.metadata
        /\ \A j \in 1..Len(R.rows[i].cols) :
            ValueFits(R.rows[i].cols[j], R.metadata.row_metadata[j].col_type)

(* C11: in every successfully decoded Rows result each row has exactly     *)
(* metadata.column_count values, which is also the number of column        *)
(* descriptions, and the i-th value of a row is a value of the i-th        *)
(* column's type descriptor.                                               *)
C11_RowsMatchMetadata == DecodedRows => RowsFit(Val(Val(cout.v.body)))

C11_Witness ==
    /\ DecodedRows
    /\ Len(Val(Val(cout.v.body)).rows) = 2
    /\ Val(Val(cout.v.body)).metadata.column_count = 3
    /\ Val(Val(cout.v.body)).rows[2].cols[1] = Null
    /\ Val(Val(cout.v.body)).rows[1].cols[3] = <<"CqlBlob", <<1, 2, 3>>>>

(* C12: a premature end of input is Error::UnexpectedEOF at every stage:   *)
(* when the transport ends within the 9 header bytes, when it ends within  *)
(* the body_length body bytes, and when a read inside the body needs more  *)
(* bytes than the body has left; it is never Io or Protocol.               *)
C12_PrematureEndIsUnexpectedEOF ==
    (cop = "decode_frame" /\ Val(cin).cut # "none") => cout.st = "UnexpectedEOF"

(* C13: on every finite byte sequence read_cql_response ends with a        *)
(* complete Response or with one of the five Error kinds; no input makes   *)
(* the decoder abort, and a body that was not decoded whole is never       *)
(* returned.                                                               *)
C13_DecoderNeverAborts ==
    cop = "decode_frame" =>
        /\ cout.st \in {"ok"} \cup ErrorKinds
        /\ cout.st = "ok" => (cout.framed /\ cout.v.body # <<>>)

\* v is, or holds inside a collection, a value the encoder has no bytes for
RECURSIVE Unencodable(_)
Unencodable(v) ==
    \/ Tag(v) \in {"CqlCounter", "CqlDecimal", "CqlUDT", "CqlUnknown"}
    \/ Tag(v) \in {"CqlList", "CqlSet"} /\ \E i \in 1..Len(Val(v)) : Unencodable(Val(v)[i])
    \/ Tag(v) = "CqlMap"
       /\ \E i \in 1..Len(Val(v)) : Unencodable(Val(v)[i][1]) \/ Unencodable(Val(v)[i][2])
    \/ Tag(v) = "CqlTuple"
       /\ \E i \in 1..Len(Val(v)) : \E j \in 1..Len(Val(v)[i]) : Unencodable(Val(v)[i][j])

(* C14: query or execute called with a values list that holds a            *)
(* CqlCounter, CqlDecimal, CqlUDT or CqlUnknown, at top level or inside a  *)
(* collection, returns Error::Unimplemented as a value; it does not abort. *)
C14_UnencodableValueIsUnimplemented ==
    (/\ call.name \in {"query", "execute"}
     /\ \E i \in 1..Len(call.params) : Unencodable(call.params[i]))
        => res.st = "Unimplemented"

\* the indices of the columns of a row that are named name
ColumnsNamed(row, name) ==
    {j \in 1..Len(row.metadata.row_metadata) : row.metadata.row_metadata[j].col_name = name}

\* got is what get_column(name) is to return on row
FirstMatch(row, name, got) ==
    /\ ColumnsNamed(row, name) = {} => got = None
    /\ \A j \in ColumnsNamed(row, name) :
          (\A k \in ColumnsNamed(row, name) : j <= k) => got = Some(row.cols[j])
    /\ Tag(got) \in {"None", "Some"}

(* C15: on a Row produced by the decoder, get_column(name) returns the     *)
(* value at the lowest index whose column is named name, also when several *)
(* columns share the name, returns None when no column has the name, and   *)
(* never fails.                                                            *)
C15_GetColumnFirstMatch ==
    (cop = "get_column" /\ cout.result.st = "ok") =>
        /\ Len(cout.got) = Len(Val(cout.result.v).rows)
        /\ \A i \in 1..Len(cout.got) :
              FirstMatch(Val(cout.result.v).rows[i], Val(cin).name, cout.got[i])

C15_Witness ==
    /\ cop = "get_column" /\ cout.result.st = "ok" /\ Val(cin).name = Name_a
    /\ Len(cout.got) = 2
    /\ ColumnsNamed(Val(cout.result.v).rows[1], Name_a) = {1, 3}
    /\ cout.got[1] = Some(<<"CqlInt", 1>>)
    /\ Val(cout.result.v).rows[1].cols[3] = <<"CqlBlob", <<1, 2, 3>>>>
    /\ cout.got[2] = Some(Null)

(* C16: however the transport splits its bytes into reads of at least one  *)
(* byte, read_full ends, within buf.len() + 1 reads, with buf holding the  *)
(* next buf.len() bytes in order and nothing more consumed when the stream *)
(* has that many, and with UnexpectedEOF exactly when the stream ends      *)
(* before; a short read alone is no error, so a frame decodes to the same  *)
(* result under every chunking.                                            *)
C16_ReadFullUnderEveryChunking ==
    /\ cop = "read_full" =>
        /\ cout.k <= Val(cin).n + 1
        /\ (Len(Val(cin).b) - Val(cin).p >= Val(cin).n) =>
              /\ cout.st = "ok"
              /\ cout.v = SubSeq(Val(cin).b, Val(cin).p + 1, Val(cin).p + Val(cin).n)
              /\ cout.p = Val(cin).p + Val(cin).n
        /\ (Len(Val(cin).b) - Val(cin).p < Val(cin).n) =>
              cout.st = "UnexpectedEOF" /\ cout.p = Len(Val(cin).b)
    /\ cop = "read_chunked_frame" => cout = read_cql_response(Val(cin).bytes, 0)

C16_Witness ==
    /\ cop = "read_full" /\ Val(cin).chunks = <<1, 2>> /\ Val(cin).n = 4 /\ Val(cin).p = 1
    /\ cout.st = "ok" /\ cout.k = 3 /\ cout.v = <<20, 30, 40, 50>>

(* C17: metadata decoding reads the global (keyspace, table) pair once and *)
(* no per-column pair whenever bit 0x0001 of flags is set, other bits set  *)
(* or not (flags = 0x0003), and reads a per-column pair and no global pair *)
(* whenever the bit is clear.                                              *)
C17_GlobalTablesSpecBit ==
    cop = "decode_metadata" =>
        /\ cout.st = "ok" /\ cout.p = Len(Val(cin).bytes)
        /\ Len(cout.v.row_metadata) = Len(Val(cin).columns)
        /\ \A i \in 1..Len(cout.v.row_metadata) :
              cout.v.row_metadata[i].col_name = Val(cin).columns[i].name
        /\ (Val(cin).flags % 2 = 1) =>
              /\ cout.v.keyspace = Some(Str_ks) /\ cout.v.table = Some(<<116>>)
              /\ \A i \in 1..Len(cout.v.row_metadata) :
                    cout.v.row_metadata[i].keyspace = None /\ cout.v.row_metadata[i].table = None
        /\ (Val(cin).flags % 2 = 0) =>
              /\ cout.v.keyspace = None /\ cout.v.table = None
              /\ \A i \in 1..Len(cout.v.row_metadata) :
                    /\ cout.v.row_metadata[i].keyspace = Some(Str_ks)
                    /\ cout.v.row_metadata[i].table = Some(<<116>>)

\* the first cell of a decoded row of cells is a non-null cell of the Single type ty
FirstCellOf(ty) ==
    /\ cop = "decode_cells" /\ Val(cin).tys[1] = Single(ty) /\ Val(cin).vals[1] # Null

\* the declared length of the first cell
FirstCellLen == UBE(SubSeq(Val(cin).bytes, 1, 4))

(* C18: a non-null Decimal cell of declared length len is read as a 4-byte *)
(* scale and len - 4 bytes of unscaled varint: exactly len body bytes are  *)
(* consumed after the length, and the next cell is decoded from its own    *)
(* first byte.                                                             *)
C18_DecimalCellConsumesItsLength ==
    FirstCellOf("Decimal") =>
        /\ cout.first.st = "ok" /\ cout.first.p = 4 + FirstCellLen
        /\ cout.first.v = Val(cin).vals[1]
        /\ cout.row.st = "ok" /\ cout.row.v = Val(cin).vals /\ cout.row.p = Len(Val(cin).bytes)

\* the first cell of a decoded row of cells is a non-null Tuple cell
FirstCellIsTuple ==
    /\ cop = "decode_cells" /\ Tag(Val(cin).tys[1]) = "Tuple" /\ Val(cin).vals[1] # Null

(* C19: a non-null Tuple cell is read, after its length, as exactly one    *)
(* value per descriptor of the tuple, in descriptor order, without an      *)
(* element count on the wire: the number of values read is the tuple's     *)
(* arity, and the cell's length is what is consumed.                       *)
C19_TupleCellOneValuePerDescriptor ==
    FirstCellIsTuple =>
        /\ cout.first.st = "ok" /\ cout.first.p = 4 + FirstCellLen
        /\ Tag(cout.first.v) = "CqlTuple"
        /\ Len(Flatten(Val(cout.first.v))) = Len(Val(Val(cin).tys[1]))
        /\ Flatten(Val(cout.first.v)) = Flatten(Val(Val(cin).vals[1]))
        /\ cout.row.st = "ok" /\ cout.row.p = Len(Val(cin).bytes)

(* C20: a non-null Counter cell of length 8 decodes to a value that holds  *)
(* its 8 big-endian bytes, as a Bigint or Timestamp cell does, and a Rows  *)
(* result with a Counter column decodes successfully.                      *)
C20_CounterCellDecodes ==
    /\ (FirstCellOf("Counter") /\ FirstCellLen = 8) =>
          /\ cout.first.st = "ok" /\ cout.first.p = 12
          /\ Val(cout.first.v) = SBE(SubSeq(Val(cin).bytes, 5, 12))
          /\ cout.row.st = "ok" /\ cout.row.v = Val(cin).vals
    /\ (cop = "decode_frame" /\ Val(cin).cut = "none" /\ Val(cin).body = CounterRowsBody) =>
          /\ DecodedRows
          /\ Len(Val(Val(cout.v.body)).rows) = 1


\* the length prefix of the first cell, as the signed [int] it is
FirstCellPrefix == SBE(SubSeq(Val(cin).bytes, 1, 4))

\* the first cell of a decoded row of cells belongs to a column of a type the
\* decoder has no leaf for, and is not null
FirstCellOfNoLeaf ==
    /\ cop = "decode_cells"
    /\ Val(cin).tys[1] \in {Single("Unknown"), Single("UDT")}
    /\ FirstCellPrefix >= 0

\* a whole Rows frame with one column of type id 0x0030 (UDT) or 0x0024 (no known type)
FrameOfNoLeaf ==
    /\ cop = "decode_frame" /\ Val(cin).cut = "none"
    /\ Val(cin).body \in {OneCellRowsBody(Opt(48), Cell(<<>>)), OneCellRowsBody(Opt(36), Cell(<<1>>))}

(* C21: for a column whose type id is unknown or has no leaf decoder (any  *)
(* id outside the table, and UDT 0x0030) a non-null cell of length len     *)
(* consumes exactly len bytes and yields the Unknown value, the remaining  *)
(* cells of the row still decode, and decoding does not abort.             *)
C21_NoLeafCellIsSkipped ==
    /\ FirstCellOfNoLeaf =>
        /\ cout.first.st = "ok" /\ cout.first.v = <<"CqlUnknown", <<>>>>
        /\ cout.first.p = 4 + FirstCellPrefix
        /\ cout.row.st = "ok" /\ cout.row.v = Val(cin).vals
    /\ FrameOfNoLeaf =>
        /\ DecodedRows
        /\ Val(Val(cout.v.body)).rows[1].cols = << <<"CqlUnknown", <<>>>> >>

\* the lengths a cell of a fixed-width type may have
Widths(ty) ==
    CASE ty \in {"Int", "Float"} -> {4}
      [] ty \in {"Bigint", "Timestamp", "Double"} -> {8}
      [] ty = "Boolean" -> {1}
      [] ty \in {"UUID", "TimeUUID"} -> {16}
      [] ty = "Inet" -> {4, 16}

\* the first cell belongs to a fixed-width column, is not null, and has a length
\* that is not a width of the type
FirstCellOfWrongWidth ==
    /\ cop = "decode_cells"
    /\ Tag(Val(cin).tys[1]) = "Single" /\ Val(Val(cin).tys[1]) \in FixedTypes
    /\ FirstCellPrefix # 0 - 1
    /\ FirstCellPrefix \notin Widths(Val(Val(cin).tys[1]))

(* C22: a non-null cell of a fixed-width type whose length prefix is not   *)
(* the type's width (Int, Float: 4; Bigint, Timestamp, Double: 8; Boolean: *)
(* 1; UUID, TimeUUID: 16; Inet: 4 or 16) is rejected with Error::Protocol  *)
(* and no value is produced.                                               *)
C22_WrongWidthIsProtocol ==
    FirstCellOfWrongWidth => (cout.first.st = "Protocol" /\ cout.row.st = "Protocol")

C22_Witness ==
    /\ FirstCellOfWrongWidth /\ Val(cin).tys[1] = Single("Int") /\ FirstCellPrefix = 8
    /\ Len(Val(cin).bytes) = 12 /\ cout.first.st = "Protocol"

\* the element count of a collection cell, as the signed [int] it is
FirstCellCount == SBE(SubSeq(Val(cin).bytes, 5, 8))

(* C23: in read_cql_col the length prefix -1 is the only negative one that *)
(* produces a value (Null, consuming exactly 4 bytes, under every type     *)
(* descriptor); under any other negative length prefix, and under a        *)
(* negative collection element count, decoding returns an error.           *)
C23_OnlyMinusOneIsNull ==
    cop = "decode_cells" =>
        /\ FirstCellPrefix = 0 - 1 =>
            (cout.first.st = "ok" /\ cout.first.v = Null /\ cout.first.p = 4)
        /\ FirstCellPrefix < 0 - 1 => cout.first.st \in ErrorKinds
        /\ ( /\ Tag(Val(cin).tys[1]) \in {"List", "Set", "Map", "Tuple"}
             /\ FirstCellPrefix >= 0 /\ Len(Val(cin).bytes) >= 8 /\ FirstCellCount < 0 )
           => cout.first.st \in ErrorKinds

\* the first cell is a VarInt cell of the given body length
FirstCellVarint(l) ==
    /\ cop = "decode_cells" /\ Val(cin).tys[1] = Single("VarInt")
    /\ FirstCellPrefix = l /\ Len(Val(cin).bytes) = 4 + l

(* C24: a VarInt body of length 9 or more, and one of length 0, gives      *)
(* Error::Protocol or Error::Unimplemented; a body of length 1..8 is        *)
(* sign-extended to the signed 64-bit value it stands for.                 *)
C24_VarintWidths ==
    \A l \in 0..12 : FirstCellVarint(l) =>
        IF l \in 1..8
        THEN cout.first.st = "ok" /\ cout.first.v = Val(cin).vals[1] /\ cout.first.p = 4 + l
        ELSE cout.first.st \in {"Protocol", "Unimplemented"}


\* the two's-complement big-endian integer a slice of bytes denotes: the first
\* byte carries the sign, every further byte shifts in eight more bits
RECURSIVE ShiftIn(_, _, _)
ShiftIn(v, i, acc) == IF i > Len(v) THEN acc ELSE ShiftIn(v, i + 1, acc * 256 + v[i])

TwosComplement(v) == ShiftIn(v, 2, IF v[1] < 128 THEN v[1] ELSE v[1] - 256)

(* C25: for every slice v of 1..8 bytes parse_varint(v) is the             *)
(* two's-complement big-endian integer v denotes (non-negative iff the top *)
(* bit of v[0] is 0), and parsing the 8 bytes the encoder writes for       *)
(* CqlVarInt(n) returns n.                                                 *)
C25_ParseVarintIsTwosComplement ==
    cop = "parse_varint" =>
        /\ Len(Val(cin).v) \in 1..8 =>
            /\ cout.st = "ok" /\ cout.v = TwosComplement(Val(cin).v)
            /\ cout.v >= 0 <=> Val(cin).v[1] < 128
        /\ Val(cin).of # None =>
            (Len(Val(cin).v) = 8 /\ cout.st = "ok" /\ cout.v = Val(Val(cin).of))

C25_Witness ==
    /\ cop = "parse_varint" /\ Val(cin).of = Some(0 - 129)
    /\ Val(cin).v = <<255, 255, 255, 255, 255, 255, 255, 127>> /\ cout.v = 0 - 129

\* a whole frame was decoded, and this is its opcode byte
WholeFrameWithOpcode(ops) ==
    /\ cop = "decode_frame" /\ Val(cin).cut = "none" /\ Val(cin).bytes[5] \in ops

(* C26: a response frame whose opcode byte is none of the thirteen opcodes *)
(* (0x0D, 0xFF, ...) is rejected with Error::Protocol whatever its body    *)
(* is, never decoded as an ERROR frame; a frame bearing a request opcode   *)
(* or EVENT is rejected with Error::Protocol too.                          *)
C26_OtherOpcodesAreProtocol ==
    /\ WholeFrameWithOpcode({1, 4, 5, 7, 9, 10, 11, 12}) => cout.st = "Protocol"
    /\ WholeFrameWithOpcode(13..255) => cout.st = "Protocol"

\* where the bytes of the three strings of a schema change end
AfterKeyspace ==
    4 + 2 + Len(Val(cin).change_type) + 2 + Len(Val(cin).target) + 2 + Len(Val(cin).keyspace)

(* C27: a RESULT body of kind 0x0005 decodes to SchemaChange(change_type,  *)
(* target, keyspace, name): name is absent exactly when target is          *)
(* "KEYSPACE" and is one further [string] when target is "TABLE" or        *)
(* "TYPE"; any other target, and any kind outside 0x0001..0x0005, is       *)
(* Error::Protocol.                                                        *)
C27_SchemaChangeTargets ==
    cop = "decode_result" =>
        /\ (Val(cin).kind = 5 /\ Val(cin).target = Str_KEYSPACE) =>
            /\ cout.st = "ok" /\ cout.p = AfterKeyspace
            /\ cout.v = <<"SchemaChange", <<Val(cin).change_type, Val(cin).target,
                                            Val(cin).keyspace, None>>>>
        /\ (Val(cin).kind = 5 /\ Val(cin).target \in {Str_TABLE, Str_TYPE}) =>
            IF Val(cin).names = <<>> THEN cout.st # "ok"
            ELSE /\ cout.st = "ok" /\ cout.p = Len(Val(cin).bytes)
                 /\ cout.v = <<"SchemaChange", <<Val(cin).change_type, Val(cin).target,
                                                 Val(cin).keyspace, Some(Val(cin).names[1])>>>>
        /\ (Val(cin).kind = 5 /\ Val(cin).target \notin {Str_KEYSPACE, Str_TABLE, Str_TYPE}) =>
            cout.st = "Protocol"
        /\ Val(cin).kind \notin 1..5 => cout.st = "Protocol"
        /\ (cout.st = "ok" /\ Tag(cout.v) = "SchemaChange") =>
            (Val(cout.v)[4] = None <=> Val(cout.v)[2] = Str_KEYSPACE)

C27_Witness ==
    /\ cop = "decode_result" /\ Val(cin).kind = 5 /\ Val(cin).target = Str_TYPE
    /\ Val(cin).names = << <<116>> >> /\ cout.st = "ok" /\ Val(cout.v)[4] = Some(<<116>>)


\* the codes of the consistency levels Any..EachQuorum
ConsistencyCode(con) ==
    CASE con = "Any" -> 0 [] con = "One" -> 1 [] con = "Two" -> 2 [] con = "Three" -> 3
      [] con = "Quorum" -> 4 [] con = "All" -> 5 [] con = "LocalQuorum" -> 6
      [] con = "EachQuorum" -> 7

\* bs from p on, cut into n values at their length prefixes (a negative length has
\* no body); <<"bad">> when bs does not end with the n-th value
RECURSIVE ValuesAt(_, _, _, _)
ValuesAt(bs, p, n, acc) ==
    IF n = 0 THEN (IF p = Len(bs) THEN acc ELSE <<"bad">>)
    ELSE IF p + 4 > Len(bs) THEN <<"bad">>
    ELSE IF SBE(SubSeq(bs, p + 1, p + 4)) < 0
    THEN ValuesAt(bs, p + 4, n - 1, Append(acc, SubSeq(bs, p + 1, p + 4)))
    ELSE IF p + 4 + SBE(SubSeq(bs, p + 1, p + 4)) > Len(bs) THEN <<"bad">>
    ELSE ValuesAt(bs, p + 4 + SBE(SubSeq(bs, p + 1, p + 4)), n - 1,
                  Append(acc, SubSeq(bs, p + 1, p + 4 + SBE(SubSeq(bs, p + 1, p + 4)))))

\* a QUERY or EXECUTE body was written whole, for one of the levels Any..EachQuorum
WroteQueryParams ==
    /\ cop = "encode_request" /\ Val(cin).name \in {"query", "execute"}
    /\ Val(cin).con # "Unknown" /\ cout.body.st = "ok"

\* where the QueryParameters begin: after the [long string] query or the [short bytes] id
ParamsAt == IF Val(cin).name = "query" THEN 4 + Len(Val(cin).q) ELSE 2 + Len(Val(cin).id)

(* C28: in every QUERY and EXECUTE body the QueryParameters are [short]    *)
(* consistency (Any..EachQuorum as 0..7), one [byte] flags whose bit 0x01  *)
(* is set exactly when a values block follows ([short] n, then n           *)
(* length-prefixed values in the caller's order), and nothing else.        *)
C28_QueryParametersLayout ==
    WroteQueryParams =>
        /\ Len(cout.body.out) >= ParamsAt + 5
        /\ UBE(SubSeq(cout.body.out, ParamsAt + 1, ParamsAt + 2)) = ConsistencyCode(Val(cin).con)
        /\ ConsistencyCode(Val(cin).con) \in 0..7
        /\ cout.body.out[ParamsAt + 3] = 1
        /\ UBE(SubSeq(cout.body.out, ParamsAt + 4, ParamsAt + 5)) = Len(Val(cin).params)
        /\ ValuesAt(cout.body.out, ParamsAt + 5, Len(Val(cin).params), <<>>)
               = [i \in 1..Len(Val(cin).params) |-> Value_serialize(Val(cin).params[i]).out]

C28_Witness ==
    /\ WroteQueryParams /\ Val(cin).name = "execute" /\ Val(cin).con = "Quorum"
    /\ Val(cin).id = <<1, 2>> /\ Val(cin).params = << <<"CqlText", <<97, 98>>>>, Null >>
    /\ cout.body.out = <<0, 2, 1, 2, 0, 4, 1, 0, 2, 0, 0, 0, 2, 97, 98, 255, 255, 255, 255>>


(* C29: under every type descriptor, a successful read_cql_col of a        *)
(* non-null cell with length prefix len advances the cursor by exactly     *)
(* 4 + len bytes, also when the declared len of a collection is not the    *)
(* number of bytes its elements occupy.                                    *)
C29_CellAdvancesByItsLength ==
    (cop = "decode_cells" /\ FirstCellPrefix >= 0 /\ cout.first.st = "ok")
        => cout.first.p = 4 + FirstCellPrefix


\* c is an options, query, prepare or execute call whose request serialize does not
\* write whole
EncodingFails(c) ==
    /\ c.name \in {"options", "query", "prepare", "execute"}
    /\ Request_serialize(RequestOf(c)).st # "ok"

(* C30: a request is encoded whole into a buffer before anything is sent:  *)
(* when the encoding of a query, prepare, execute or options request fails *)
(* (as with Unimplemented for a CqlCounter value, after its length prefix  *)
(* went into the buffer) no byte is written to the transport and no        *)
(* response is read, so what the connection has sent and received is as    *)
(* before the call.                                                        *)
C30_FailedEncodingSendsNothing ==
    [][EncodingFails(call') =>
        /\ sent' = <<>> /\ ~rd'.did /\ srv' = NoAnswer
        /\ iolog' = iolog /\ inb' = inb /\ eof' = eof]_vars

C30_Witness ==
    /\ ncalls = 2 /\ call.name = "execute" /\ call.params = << Counter5 >>
    /\ EncodingFails(call) /\ res.st = "Unimplemented"
    /\ Len(Request_serialize(RequestOf(call)).out) > FrameHeaderLen
    /\ sent = <<>> /\ ~rd.did /\ Len(iolog) = 4

=============================================================================
